---- MODULE Spec2Model ----
(***************************************************************************)
(* State-machine model of the closet.city digital-tailoring job pipeline:  *)
(* the submission and status routes (backend/dtpRoutes.js), the bearer     *)
(* check (backend/middlewares/auth.js), the job store (backend/db.js, in   *)
(* its database-backed and in-memory variants) and the background          *)
(* orchestrator processDtpJob (dtpService).                                *)
(*                                                                         *)
(* Node runs one JavaScript turn at a time: code between two awaits is     *)
(* atomic. Every action below is one such turn; the awaits of the source   *)
(* are the boundaries between actions.                                     *)
(***************************************************************************)
EXTENDS Integers, Sequences, FiniteSets, TLC

\* ------------------------------------------------------------------ bounds
MaxSubmits == 2      \* POST /process requests received in one run
MaxPoseCalls == 2    \* calls of getPoseKeypoints in one run of the pose adapter
MaxRetryRequests == 4 \* POST /process requests in one run of SpecRetryAfter
MaxDirectCalls == 2  \* direct calls of a module's functions in one run
MaxTicks == 2        \* advances of the wall clock in one run of SpecLimiter
BootTime == 100000   \* Date.now() (ms) when the process starts

\* ------------------------------------------------------- program constants
RATE_LIMIT_WINDOW_MS == 30000

PROCESSING_STATUS == "PROCESSING"
READY_STATUS == "READY"
FAILED_STATUS == "FAILED"
QUEUED_STATUS == "QUEUED"

BASE_AVATAR == "BASE_AVATAR"
GARMENT_OVERLAY == "GARMENT_OVERLAY"

\* ------------------------------------------------------------------ inputs
Users == {"u1", "u2"}
\* a request whose Authorization header carries no verifiable bearer token
Anonymous == "anon"
Callers == Users \cup {Anonymous}

\* Amounts (ms) by which the wall clock advances between two turns.
TickSteps == {15000}

\* Request bodies of POST /process: metadata.jobType as sent ("" = absent),
\* whether photoBase64 / garmentImageBase64 is a non-empty string.
Bodies ==
  { [jobType |-> "BASE_AVATAR",     photo |-> TRUE,  garment |-> FALSE],
    [jobType |-> "",                photo |-> FALSE, garment |-> FALSE],
    [jobType |-> "garment_overlay", photo |-> TRUE,  garment |-> TRUE],
    [jobType |-> "GARMENT_OVERLAY", photo |-> TRUE,  garment |-> FALSE] }

\* Every POST /process request draws a fresh id (randomUUID): the k-th request
\* of a run is given id k.
JobIds == 1..MaxSubmits

Null == "null"
Undefined == "undefined"

\* String.prototype.toUpperCase on the job-type strings of the model.
ToUpperCase(s) == IF s = "garment_overlay" THEN "GARMENT_OVERLAY" ELSE s

VARIABLES
  usingMemoryFallback, \* db.js: TRUE when the pg module could not be loaded
  now,                 \* Date.now()
  ticks,               \* number of clock advances so far
  nSubmits,            \* POST /process requests received so far
  userRateLimitMap,    \* dtpRoutes.js: userId -> time of last limiter pass (absent = not in DOMAIN)
  reqs,                \* the POST /process requests so far: what was sent, when, and the
                       \* status code answered (0 = its INSERT is still in flight)
  dtpJobs,             \* the dtp_jobs table / memoryStore.dtpJobs: id -> row
  pc,                  \* position of the processDtpJob task of each job id
  pose,                \* poseKeypointData local of each task
  vertexAIService,     \* module state of the pose adapter and its calls
  caught,              \* "error" of each task's catch block (Null outside the block)
  ctx,                 \* baseAvatarContext local of each task: the job
                       \* resolveBaseAvatarContext returned, NoContext when it returned null
  server,              \* the server process: the configuration in its environment
                       \* (the variables that are set) and whether it listens
  lastCall             \* the last direct call of an exported function (of db.js, of the
                       \* generation adapter, of the client's poller) with what it
                       \* returned; NoCall while the program is driven through its routes

vars == << usingMemoryFallback, now, ticks, nSubmits, userRateLimitMap,
           reqs, dtpJobs, pc, pose, vertexAIService, caught, ctx, server, lastCall >>

\* The state the pose adapter neither reads nor writes.
OutsideVertex == << usingMemoryFallback, now, ticks, nSubmits, userRateLimitMap,
                   reqs, dtpJobs, pc, pose, caught, ctx, server, lastCall >>

\* ------------------------------------------------------ server startup

\* The environment variables the services of a job require.
GEMINI_API_KEY == "GEMINI_API_KEY"
GCS_BUCKET_NAME == "GCS_BUCKET_NAME"
DATABASE_URL == "DATABASE_URL"
EnvNames == {GEMINI_API_KEY, GCS_BUCKET_NAME, DATABASE_URL}

\* A process that runs app.listen with the given variables set.
Listening(env) == [env |-> env, phase |-> "listening"]

\* Whether the server gets to app.listen: "if (!GEMINI_API_KEY)
\* process.exit(1)" at module load; bootstrap awaits db.initDatabase(), whose
\* ensurePool exits the process without DATABASE_URL unless the store is the
\* in-memory one.
Starts(env, memoryFallback) ==
  /\ GEMINI_API_KEY \in env
  /\ memoryFallback \/ DATABASE_URL \in env

\* The environments of the runs that begin with a listening server: the
\* bucket name set or not. DATABASE_URL is read by ensurePool alone, which
\* the in-memory store never reaches; it is set in these runs.
StartingEnvs ==
  { env \in SUBSET EnvNames : Starts(env, FALSE) }

\* No direct call was made.
NoCall == [op |-> "none", n |-> 0]

\* A direct call as lastCall keeps it: the function, the number of direct
\* calls so far, the arguments, whether it threw and what it returned.
Call(op, args, threw, result) ==
  [ op |-> op, n |-> lastCall.n + 1, args |-> args, threw |-> threw, result |-> result ]

\* ------------------------------------------------------ backend/db.js

\* The column list of the SELECT that GET /status/:jobId sends to db.query.
StatusSelectColumns ==
  << "id", "user_id", "status", "result_url", "keypoint_data", "request_payload",
     "created_at", "updated_at" >>

\* The column list of the only dtp_jobs SELECT that runMemoryQuery recognises
\* (its startsWith test runs through "... from dtp_jobs where id").
MemorySelectColumns ==
  << "id", "user_id", "status", "result_url", "request_payload", "created_at",
     "updated_at" >>

\* runMemoryQuery on a "select <columns> from dtp_jobs where id = $1 and
\* user_id = $2" text: the rows it returns, or "throws" when no branch matches
\* the text (the final "Unsupported memory fallback query" error).
runMemorySelect(columns, id, userId) ==
  IF columns = MemorySelectColumns
  THEN IF id \in DOMAIN dtpJobs /\ dtpJobs[id].user_id = userId
       THEN << dtpJobs[id] >> ELSE << >>
  ELSE "throws"

\* The rows the database returns for the same text.
runPoolSelect(id, userId) ==
  IF id \in DOMAIN dtpJobs /\ dtpJobs[id].user_id = userId
  THEN << dtpJobs[id] >> ELSE << >>

\* Outcomes of one store call: the pg pool may reject any query; the
\* in-memory maps cannot fail.
StoreFaults == IF usingMemoryFallback THEN {FALSE} ELSE BOOLEAN

\* Variant of InsertedRow: the row is inserted as already being processed.
InsertedRow_Processing(id, userId, requestPayload, nowIso) ==
  [ id |-> id,
    user_id |-> userId,
    status |-> PROCESSING_STATUS,
    request_payload |-> requestPayload,
    result_url |-> Null,
    keypoint_data |-> Null,
    created_at |-> nowIso,
    updated_at |-> nowIso ]

\* The row written by INSERT INTO dtp_jobs (both stores).
InsertedRow(id, userId, requestPayload, nowIso) ==
  [ id |-> id,
    user_id |-> userId,
    status |-> QUEUED_STATUS,
    request_payload |-> requestPayload,
    result_url |-> Null,
    keypoint_data |-> Null,
    created_at |-> nowIso,
    updated_at |-> nowIso ]

\* Variant of updateDtpJobStatus: an update of an id the store does not hold
\* creates a row for it.
updateDtpJobStatus_Upsert(jobId, status, resultUrl, keypointData) ==
  [k \in DOMAIN dtpJobs \cup {jobId} |->
     IF k # jobId THEN dtpJobs[k]
     ELSE [ (IF jobId \in DOMAIN dtpJobs THEN dtpJobs[jobId]
             ELSE InsertedRow(jobId, Undefined, [jobType |-> "", garment |-> FALSE], now))
            EXCEPT !.status = status,
                   !.result_url = resultUrl,
                   !.updated_at = now,
                   !.keypoint_data =
                      IF keypointData = Undefined THEN @ ELSE keypointData ]]

\* Variant of updateDtpJobStatus: the update reaches every row of the job's
\* owner.
updateDtpJobStatus_OwnersRows(jobId, status, resultUrl, keypointData) ==
  IF jobId \in DOMAIN dtpJobs
  THEN [k \in DOMAIN dtpJobs |->
          IF dtpJobs[k].user_id # dtpJobs[jobId].user_id THEN dtpJobs[k]
          ELSE [dtpJobs[k] EXCEPT !.status = status,
                                  !.result_url = resultUrl,
                                  !.updated_at = now,
                                  !.keypoint_data =
                                     IF keypointData = Undefined THEN @ ELSE keypointData]]
  ELSE dtpJobs

\* Variant of updateDtpJobStatus: the update writes the whole row anew, with
\* an empty request payload.
updateDtpJobStatus_WholeRow(jobId, status, resultUrl, keypointData) ==
  IF jobId \in DOMAIN dtpJobs
  THEN [dtpJobs EXCEPT ![jobId] =
          [@ EXCEPT !.status = status,
                    !.result_url = resultUrl,
                    !.updated_at = now,
                    !.request_payload = [jobType |-> "", garment |-> FALSE],
                    !.keypoint_data =
                       IF keypointData = Undefined THEN @ ELSE keypointData]]
  ELSE dtpJobs

\* Variant of updateDtpJobStatus: an omitted keypointData is written as null.
updateDtpJobStatus_KeypointsAlways(jobId, status, resultUrl, keypointData) ==
  IF jobId \in DOMAIN dtpJobs
  THEN [dtpJobs EXCEPT ![jobId] =
          [@ EXCEPT !.status = status,
                    !.result_url = resultUrl,
                    !.updated_at = now,
                    !.keypoint_data =
                       IF keypointData = Undefined THEN Null ELSE keypointData]]
  ELSE dtpJobs

\* updateDtpJobStatus(jobId, status, resultUrl = null, keypointData = undefined):
\* the table after a successful call.
updateDtpJobStatus(jobId, status, resultUrl, keypointData) ==
  IF jobId \in DOMAIN dtpJobs
  THEN [dtpJobs EXCEPT ![jobId] =
          [@ EXCEPT !.status = status,
                    !.result_url = resultUrl,
                    !.updated_at = now,
                    !.keypoint_data =
                       IF keypointData = Undefined THEN @ ELSE keypointData]]
  ELSE dtpJobs

\* ------------------------------------------------- backend/middlewares/auth.js

\* protect: req.userId, or Undefined when the middleware answers 401.
protect(caller) == IF caller = Anonymous THEN Undefined ELSE caller

\* ----------------------------------------------------- backend/dtpRoutes.js

LimiterJobType(body) == ToUpperCase(body.jobType)

RouteJobType(body) ==
  ToUpperCase(IF body.jobType = "" THEN "BASE_AVATAR" ELSE body.jobType)

lastRequestAt(userId) ==
  IF userId \in DOMAIN userRateLimitMap THEN userRateLimitMap[userId] ELSE 0

\* Math.ceil((RATE_LIMIT_WINDOW_MS - elapsed) / 1000)
retryAfterSeconds(elapsed) == (RATE_LIMIT_WINDOW_MS - elapsed + 999) \div 1000

\* Variant of Throttled: the limiter without its GARMENT_OVERLAY exemption.
Throttled_NoExemption(userId, body) ==
  now - lastRequestAt(userId) < RATE_LIMIT_WINDOW_MS

\* enforceDtpRateLimit answers 429
Throttled(userId, body) ==
  /\ LimiterJobType(body) # GARMENT_OVERLAY
  /\ now - lastRequestAt(userId) < RATE_LIMIT_WINDOW_MS

\* Variant of RateLimitMapAfterPass: the pass is not recorded.
RateLimitMapAfterPass_NotRecorded(userId, body) == userRateLimitMap

\* userRateLimitMap after enforceDtpRateLimit called next()
RateLimitMapAfterPass(userId, body) ==
  IF LimiterJobType(body) = GARMENT_OVERLAY
  THEN userRateLimitMap
  ELSE [u \in DOMAIN userRateLimitMap \cup {userId} |->
          IF u = userId THEN now ELSE userRateLimitMap[u]]

\* The validation of the POST /process handler: 400 or 0 (passes).
ValidationCode(body) ==
  IF ~body.photo THEN 400
  ELSE IF RouteJobType(body) = GARMENT_OVERLAY /\ ~body.garment THEN 400
  ELSE 0

\* The request as the server keeps it while it is handled, with the status
\* code it was answered with.
Request(caller, body, code) ==
  [ caller |-> caller, body |-> body, at |-> now, code |-> code,
    retryAfter |-> IF code = 429 THEN retryAfterSeconds(now - lastRequestAt(caller)) ELSE 0 ]

\* The status code enforceDtpRateLimit and the handler's validation answer
\* in the first turn of POST /process, 0 when the request reaches the INSERT.
FirstTurnCode(caller, body) ==
  IF protect(caller) = Undefined THEN 401
  ELSE IF Throttled(protect(caller), body) THEN 429
  ELSE ValidationCode(body)

\* POST /process up to its first await: protect, enforceDtpRateLimit and the
\* handler's validation run in one turn; a request that passes all three
\* leaves its INSERT in flight.
ProcessRequest(caller, body) ==
  /\ nSubmits' = nSubmits + 1
  /\ reqs' = Append(reqs, Request(caller, body, FirstTurnCode(caller, body)))
  /\ userRateLimitMap' =
       IF protect(caller) # Undefined /\ ~Throttled(protect(caller), body)
       THEN RateLimitMapAfterPass(protect(caller), body)
       ELSE userRateLimitMap
  /\ UNCHANGED << usingMemoryFallback, now, ticks, dtpJobs, pc, pose, vertexAIService, caught, ctx, server, lastCall >>

\* The request payload the handler serialises: photoBase64 (always present
\* here), metadata and garmentImageBase64 when given.
RequestPayload(body) == [jobType |-> body.jobType, garment |-> body.garment]

\* The position of the task right after dtpService.processDtpJob(jobId, userId)
\* was called: it has issued db.getDtpJobById and is suspended on it.
TaskStarted == "load"

\* Variant of TaskAfterInsert: processDtpJob is called whether or not the
\* INSERT succeeded.
TaskAfterInsert_Always(fault) == TaskStarted

\* The handler calls processDtpJob inside its try block, after the awaited
\* INSERT: a rejected INSERT skips the call. "none" = no task exists.
TaskAfterInsert(fault) == IF fault THEN "none" ELSE TaskStarted

\* The body of the 200 response: {jobId, status: 'QUEUED', createdAt: nowIso}.
SubmitRes(jobId, nowIso) ==
  [ jobId |-> jobId, status |-> "QUEUED", createdAt |-> nowIso ]

\* POST /process after "await db.query(INSERT ...)": on success the handler
\* calls processDtpJob without awaiting it and answers 200; a rejected INSERT
\* is answered 500. The job id is the request's own fresh id (randomUUID).
InsertDone(jobId) ==
  /\ jobId \in 1..Len(reqs)
  /\ reqs[jobId].code = 0
  /\ LET r == reqs[jobId] IN
     \E fault \in StoreFaults :
       IF fault
       THEN /\ reqs' = [reqs EXCEPT ![jobId].code = 500]
            /\ pc' = [pc EXCEPT ![jobId] = TaskAfterInsert(fault)]
            /\ UNCHANGED dtpJobs
       ELSE /\ dtpJobs' = [k \in DOMAIN dtpJobs \cup {jobId} |->
                             IF k = jobId
                             THEN InsertedRow(jobId, r.caller, RequestPayload(r.body), r.at)
                             ELSE dtpJobs[k]]
            /\ pc' = [pc EXCEPT ![jobId] = TaskAfterInsert(fault)]
            /\ reqs' = [reqs EXCEPT ![jobId].code = 200]
  /\ UNCHANGED << usingMemoryFallback, now, ticks, nSubmits, userRateLimitMap, pose, vertexAIService, caught, ctx, server, lastCall >>

StatusRes(code, row) ==
  [ code |-> code,
    jobId |-> IF code = 200 THEN row.id ELSE Null,
    status |-> IF code = 200 THEN row.status ELSE Null,
    resultUrl |-> IF code = 200 THEN row.result_url ELSE Null,
    keypointData |-> IF code = 200 THEN row.keypoint_data ELSE Null,
    createdAt |-> IF code = 200 THEN row.created_at ELSE Null,
    updatedAt |-> IF code = 200 THEN row.updated_at ELSE Null ]

\* db.query for the status SELECT: the rows, or "throws".
StatusQuery(jobId, userId) ==
  IF usingMemoryFallback
  THEN runMemorySelect(StatusSelectColumns, jobId, userId)
  ELSE runPoolSelect(jobId, userId)

\* The response of GET /status/:jobId in the current state (protect, then one
\* awaited SELECT scoped by user_id; fault: the pool rejects the query).
StatusResponse(caller, jobId, fault) ==
  IF protect(caller) = Undefined THEN StatusRes(401, Null)
  ELSE IF fault THEN StatusRes(500, Null)
  ELSE LET rows == StatusQuery(jobId, protect(caller)) IN
       IF rows = "throws" THEN StatusRes(500, Null)
       ELSE IF Len(rows) = 0 THEN StatusRes(404, Null)
       ELSE StatusRes(200, rows[1])

\* GET /status/:jobId: the handler reads the store and writes nothing.
StatusRequest(caller, jobId) ==
  /\ UNCHANGED vars
  /\ \E fault \in StoreFaults :
       StatusResponse(caller, jobId, fault).code \in {200, 401, 404, 500}

\* ------------------------------------------------ dtpService (processDtpJob)

normalizeJobType(jobType) ==
  IF ToUpperCase(jobType) = GARMENT_OVERLAY THEN GARMENT_OVERLAY ELSE BASE_AVATAR

JobTypeOf(jobId) == normalizeJobType(dtpJobs[jobId].request_payload.jobType)

\* ---------------------------------------------- pose adapter (vertexAIService)

\* A photo string as its characters; Trim is String.prototype.trim.
Blank == " "

RECURSIVE TrimStart(_)
TrimStart(s) ==
  IF s # << >> /\ Head(s) = Blank THEN TrimStart(Tail(s)) ELSE s

RECURSIVE TrimEnd(_)
TrimEnd(s) ==
  IF s # << >> /\ s[Len(s)] = Blank THEN TrimEnd(SubSeq(s, 1, Len(s) - 1)) ELSE s

Trim(s) == TrimEnd(TrimStart(s))

\* The photo strings given to getPoseKeypoints.
Photos == { << Blank, Blank >>, << "A" >>, << Blank, "A" >>, << "B" >> }

\* The three settings getPoseKeypoints reads from process.env.
VertexEnvNames == {"GCP_PROJECT_ID", "GCP_REGION", "VERTEX_AI_POSE_ENDPOINT"}

\* The environments of a run: all three settings, or the endpoint missing.
VertexEnvs == { VertexEnvNames, VertexEnvNames \ {"VERTEX_AI_POSE_ENDPOINT"} }

\* The 17 labels of simulateKeypoints, in its order.
keypointLabels ==
  << "nose", "eye_left", "eye_right", "ear_left", "ear_right",
     "shoulder_left", "shoulder_right", "elbow_left", "elbow_right",
     "wrist_left", "wrist_right", "hip_left", "hip_right",
     "knee_left", "knee_right", "ankle_left", "ankle_right" >>

\* Character codes of the characters used in Photos.
CharCode(c) == IF c = "A" THEN 65 ELSE IF c = "B" THEN 66 ELSE 32

RECURSIVE Mix(_, _)
Mix(s, acc) ==
  IF s = << >> THEN acc ELSE Mix(Tail(s), (acc * 31 + CharCode(Head(s))) % 65521)

\* createHash('sha256').update(seed).digest(): 32 bytes that depend on the
\* bytes of the seed and on nothing else. The bytes themselves are those of a
\* simpler mixing function; no claim depends on their values.
HashLength == 32

Digest(seed) ==
  [i \in 1..HashLength |-> ((Mix(seed, 7) + 1) * (i + 2) * 37) % 256]

\* Number((0.6 + (byte / 255) * 0.4).toFixed(3)), in thousandths.
Score(byte) == (2 * (600 * 255 + byte * 400) + 255) \div (2 * 255)

\* Variant of simulateKeypoints: the landmarks drift with the number of calls
\* made so far.
simulateKeypoints_Stateful(seed) ==
  LET hash == Digest(seed)
      n == Len(keypointLabels)
      drift == Len(vertexAIService.calls)
  IN [index \in 1..n |->
        [name |-> keypointLabels[index],
         x |-> 60 + ((hash[index] + drift) % 400),
         y |-> 80 + (hash[((index - 1 + n) % HashLength) + 1] % 520),
         score |-> Score(hash[((index - 1 + n * 2) % HashLength) + 1])]]

\* simulateKeypoints(seed): the keypoints list of the object it returns
\* (index here is the source's index + 1).
simulateKeypoints(seed) ==
  LET hash == Digest(seed)
      n == Len(keypointLabels)
  IN [index \in 1..n |->
        [name |-> keypointLabels[index],
         x |-> 60 + (hash[index] % 400),
         y |-> 80 + (hash[((index - 1 + n) % HashLength) + 1] % 520),
         score |-> Score(hash[((index - 1 + n * 2) % HashLength) + 1])]]

\* Stand-ins among the numbers of a response: a value that is not a finite
\* number, and the "undefined" normalizeKeypoint puts in its place.
NotFinite == -1
UndefinedNumber == -2

\* Raw entries of a service response: a landmark, a landmark whose x is not a
\* finite number, an object without a string name, and null.
RawKeypoints ==
  { [kind |-> "object", name |-> "nose", x |-> 10, y |-> 20, score |-> 900],
    [kind |-> "object", name |-> "hip_left", x |-> NotFinite, y |-> 30, score |-> 500],
    [kind |-> "object", name |-> Undefined, x |-> 1, y |-> 2, score |-> 3],
    [kind |-> "null", name |-> Undefined, x |-> NotFinite, y |-> NotFinite,
     score |-> NotFinite] }

\* "!raw || typeof raw !== 'object'" and "typeof name !== 'string'": the
\* entries for which normalizeKeypoint returns null.
NormalizesToNull(raw) == raw.kind # "object" \/ raw.name = Undefined

\* "Number.isFinite(v) ? Number(v) : undefined"
FiniteOrUndefined(v) == IF v # NotFinite THEN v ELSE UndefinedNumber

\* normalizeKeypoint(raw), for the entries it does not turn into null.
normalizeKeypoint(raw) ==
  [name |-> raw.name,
   x |-> FiniteOrUndefined(raw.x),
   y |-> FiniteOrUndefined(raw.y),
   score |-> FiniteOrUndefined(raw.score)]

\* "list.map(normalizeKeypoint).filter(Boolean)"
RECURSIVE MapNormalize(_)
MapNormalize(list) ==
  IF list = << >> THEN << >>
  ELSE IF NormalizesToNull(Head(list)) THEN MapNormalize(Tail(list))
  ELSE << normalizeKeypoint(Head(list)) >> \o MapNormalize(Tail(list))

\* The raw lists of those entries found in a response: the two landmarks,
\* two entries that normalize to null, and null followed by a landmark.
RawLists ==
  LET landmarks == {r \in RawKeypoints : ~NormalizesToNull(r)}
      dropped == {r \in RawKeypoints : NormalizesToNull(r)}
  IN { l \in landmarks \X landmarks : l[1] # l[2] }
     \cup { l \in dropped \X dropped : l[1] # l[2] }
     \cup { << a, b >> : a \in {r \in dropped : r.kind = "null"},
                         b \in {r \in landmarks : r.x # NotFinite} }

\* The responses of client.predict: no response object, an object with
\* neither predictions nor keypoints, an object with predictions[0].keypoints.
Responses ==
  { [shape |-> "none", keypoints |-> << >>], [shape |-> "other", keypoints |-> << >>] }
  \cup { [shape |-> "predictions", keypoints |-> l] : l \in RawLists }

\* extractKeypoints(response)
extractKeypoints(response) ==
  IF response.shape = "predictions"
  THEN MapNormalize(response.keypoints)
  ELSE << >>

\* What client.predict does for one call: it resolves with a response, it
\* rejects, or it never settles.
Settlements ==
  { [how |-> "resolves", response |-> r] : r \in Responses }
  \cup { [how |-> h, response |-> [shape |-> "none", keypoints |-> << >>]] :
           h \in {"rejects", "never"} }

\* The module at load: "let predictionClient; let simulationNoticeLogged =
\* false; let vertexModuleLoaded = false", in a process whose environment is
\* env and in which the @google-cloud/aiplatform package is installed or not.
\* calls: the calls of getPoseKeypoints made so far, notices: the
\* 'Using simulated Vertex AI pose keypoints.' lines logged so far.
VertexAtLoad(sdkInstalled, env) ==
  [sdkInstalled |-> sdkInstalled, env |-> env,
   predictionClient |-> Undefined,
   simulationNoticeLogged |-> FALSE,
   vertexModuleLoaded |-> FALSE,
   notices |-> 0,
   calls |-> << >>]

\* Variant of logSimulationNotice: without the simulationNoticeLogged test.
logSimulationNotice_EveryTime(m) ==
  [m EXCEPT !.simulationNoticeLogged = TRUE, !.notices = @ + 1]

\* logSimulationNotice(reason, error) applied to the module state m.
logSimulationNotice(m) ==
  IF m.simulationNoticeLogged THEN m
  ELSE [m EXCEPT !.simulationNoticeLogged = TRUE, !.notices = @ + 1]

\* ensurePredictionClient() applied to the module state m.
ensurePredictionClient(m) ==
  IF m.predictionClient # Undefined THEN m
  ELSE IF m.sdkInstalled
       THEN [m EXCEPT !.predictionClient = "client", !.vertexModuleLoaded = TRUE]
       ELSE logSimulationNotice([m EXCEPT !.predictionClient = Null])

\* "!client || !endpointId || !projectId || !region"
ConfigurationIncomplete(m) ==
  m.predictionClient = Null \/ m.env # VertexEnvNames

\* A call of getPoseKeypoints as the module keeps it: the argument, where
\* the call stands ("threw", "pending" on client.predict, "returned"), what
\* client.predict does for it, and the keypoints of the returned object.
PoseCall(photo, state, settlement, keypoints) ==
  [photo |-> photo, state |-> state, settlement |-> settlement, keypoints |-> keypoints]

NoSettlement == [how |-> "not called", response |-> [shape |-> "none", keypoints |-> << >>]]

\* getPoseKeypoints(photoBase64) up to its first await: the argument check,
\* the client, the configuration check and either the simulated result or
\* the call of client.predict.
GetPoseKeypointsCall(photo, settlement) ==
  /\ Len(vertexAIService.calls) < MaxPoseCalls
  /\ IF Trim(photo) = << >>
     THEN vertexAIService' =
            [vertexAIService EXCEPT
               !.calls = Append(@, PoseCall(photo, "threw", NoSettlement, << >>))]
     ELSE LET m == ensurePredictionClient(vertexAIService)
          IN IF ConfigurationIncomplete(m)
             THEN vertexAIService' =
                    [logSimulationNotice(m) EXCEPT
                       !.calls = Append(@, PoseCall(photo, "returned", NoSettlement,
                                                    simulateKeypoints(Trim(photo))))]
             ELSE vertexAIService' =
                    [m EXCEPT
                       !.calls = Append(@, PoseCall(photo, "pending", settlement, << >>))]
  /\ UNCHANGED OutsideVertex

\* Variant of PredictionFailed: an error of client.predict is not caught.
PredictionFailed_Propagates(m, c) ==
  [m EXCEPT !.calls[c].state = "threw"]

\* The catch block of getPoseKeypoints: the notice and the simulated result.
PredictionFailed(m, c) ==
  [logSimulationNotice(m) EXCEPT
     !.calls[c].state = "returned",
     !.calls[c].keypoints = simulateKeypoints(Trim(m.calls[c].photo))]

\* getPoseKeypoints after "await client.predict(request)" has settled: the
\* extracted keypoints when there are some, else (rejection, no keypoints)
\* the catch block.
GetPoseKeypointsResume(c) ==
  /\ c \in 1..Len(vertexAIService.calls)
  /\ vertexAIService.calls[c].state = "pending"
  /\ vertexAIService.calls[c].settlement.how # "never"
  /\ LET call == vertexAIService.calls[c]
         keypoints == extractKeypoints(call.settlement.response)
     IN IF call.settlement.how = "resolves" /\ keypoints # << >>
        THEN vertexAIService' =
               [vertexAIService EXCEPT !.calls[c].state = "returned",
                                       !.calls[c].keypoints = keypoints]
        ELSE vertexAIService' = PredictionFailed(vertexAIService, c)
  /\ UNCHANGED OutsideVertex

\* ---------------------------------------------------------- the task

\* The value of a non-empty keypoint result of the pose adapter.
Keypoints == "keypoints"
\* The signed URL returned by gcsService.uploadBase64Image.
SignedUrl == "signedUrl"

\* The errors a task's catch block can catch, by the call that threw.
Errors == {"StoreError", "PoseError", "ContextError", "GenerationError", "UploadError"}

\* "catch (error)": the catch block's error once a step went to "catch".
Thrown(jobId, position, error) ==
  IF position = "catch" THEN [caught EXCEPT ![jobId] = error] ELSE caught

TaskFrame == << usingMemoryFallback, now, ticks, nSubmits, userRateLimitMap, reqs, vertexAIService, server, lastCall >>

\* "const jobRecord = await db.getDtpJobById(jobId)" returns (or throws);
\* "if (!jobRecord) { ...; return; }".
TaskLoad(jobId) ==
  /\ pc[jobId] = "load"
  /\ \E fault \in StoreFaults :
       pc' = [pc EXCEPT ![jobId] =
                IF fault THEN "catch"
                ELSE IF jobId \in DOMAIN dtpJobs THEN "markProcessing"
                ELSE "done"]
  /\ UNCHANGED << dtpJobs, pose, ctx >>
  /\ caught' = Thrown(jobId, pc'[jobId], "StoreError")
  /\ UNCHANGED TaskFrame

\* Variant of ProcessingUpdate: the task goes on without writing PROCESSING.
ProcessingUpdate_NotWritten(jobId) == dtpJobs

\* The status and result URL that the task writes once the job is loaded.
ProcessingUpdate(jobId) == updateDtpJobStatus(jobId, PROCESSING_STATUS, Null, Undefined)

\* "await db.updateDtpJobStatus(jobId, PROCESSING_STATUS, null)"
TaskMarkProcessing(jobId) ==
  /\ pc[jobId] = "markProcessing"
  /\ \E fault \in StoreFaults :
       IF fault
       THEN /\ pc' = [pc EXCEPT ![jobId] = "catch"]
            /\ UNCHANGED dtpJobs
       ELSE /\ dtpJobs' = ProcessingUpdate(jobId)
            /\ pc' = [pc EXCEPT ![jobId] =
                        IF JobTypeOf(jobId) = BASE_AVATAR THEN "pose" ELSE "context"]
  /\ UNCHANGED << pose, ctx >>
  /\ caught' = Thrown(jobId, pc'[jobId], "StoreError")
  /\ UNCHANGED TaskFrame

\* What "await vertexAIService.getPoseKeypoints(payload.photoBase64)" gives
\* the task: the adapter's keypoint result, or "throws" when the photo string
\* is blank once trimmed (the adapter recovers from every failure of the
\* external service by itself).
PoseOutcomes == {Keypoints, "throws"}

\* "if (!poseKeypointData || !Array.isArray(poseKeypointData.keypoints)) throw"
PoseResultUsable(result) == result \notin {Undefined, Null, "throws"}

\* BASE_AVATAR: the pose call and the check of its result.
TaskPose(jobId) ==
  /\ pc[jobId] = "pose"
  /\ \E result \in PoseOutcomes :
       IF PoseResultUsable(result)
       THEN /\ pose' = [pose EXCEPT ![jobId] = result]
            /\ pc' = [pc EXCEPT ![jobId] = "build"]
       ELSE /\ pc' = [pc EXCEPT ![jobId] = "catch"]
            /\ UNCHANGED pose
  /\ UNCHANGED << dtpJobs, ctx >>
  /\ caught' = Thrown(jobId, pc'[jobId], "PoseError")
  /\ UNCHANGED TaskFrame

\* The "no job" value of a job reference: baseAvatarJobId absent from the
\* metadata, resolveBaseAvatarContext returning null.
NoJob == 0

\* Variant of isBaseAvatarJob: every job counts as a base avatar.
isBaseAvatarJob_AnyJob(payload) == TRUE

\* db.js isBaseAvatarJob on the stored request payload.
isBaseAvatarJob(payload) ==
  ToUpperCase(payload.jobType) \in {"", "BASE_AVATAR"}

\* getLatestBaseAvatarJobWithKeypoints(userId): the jobs it may return, those
\* of the user's base-avatar jobs with keypoints whose updated_at is greatest
\* (none: it returns null).
LatestBaseAvatarJobsWithKeypoints(userId) ==
  LET candidates == { k \in DOMAIN dtpJobs :
                        /\ dtpJobs[k].user_id = userId
                        /\ dtpJobs[k].keypoint_data # Null
                        /\ isBaseAvatarJob(dtpJobs[k].request_payload) }
  IN { k \in candidates :
         \A other \in candidates : dtpJobs[other].updated_at <= dtpJobs[k].updated_at }

\* What a task holds of the job a store read returned: with the memory store
\* the store's own object (read again through id at every use), with the
\* database a copy of the row as it was, of which result_url and
\* keypoint_data are read later.
JobRead(id) ==
  IF usingMemoryFallback
  THEN [id |-> id, result_url |-> Null, keypoint_data |-> Null]
  ELSE [id |-> id, result_url |-> dtpJobs[id].result_url,
        keypoint_data |-> dtpJobs[id].keypoint_data]

\* "return null" of resolveBaseAvatarContext.
NoContext == [id |-> NoJob, result_url |-> Null, keypoint_data |-> Null]

\* Variant of resolveBaseAvatarContext: the job named in the metadata is
\* used whoever owns it.
resolveBaseAvatarContext_AnyOwner(userId, explicitJobId, byIdFault, latestFault) ==
  IF /\ explicitJobId # NoJob
     /\ ~byIdFault
     /\ explicitJobId \in DOMAIN dtpJobs
  THEN {JobRead(explicitJobId)}
  ELSE IF latestFault \/ LatestBaseAvatarJobsWithKeypoints(userId) = {}
       THEN {NoContext}
       ELSE {JobRead(k) : k \in LatestBaseAvatarJobsWithKeypoints(userId)}

\* resolveBaseAvatarContext(userId, payload, overlayJobId): the values it may
\* return. explicitJobId is metadata.baseAvatarJobId (NoJob when absent);
\* byIdFault / latestFault: the store rejects the read, which the function
\* catches and logs.
resolveBaseAvatarContext(userId, explicitJobId, byIdFault, latestFault) ==
  IF /\ explicitJobId # NoJob
     /\ ~byIdFault
     /\ explicitJobId \in DOMAIN dtpJobs
     /\ dtpJobs[explicitJobId].user_id = userId
  THEN {JobRead(explicitJobId)}
  ELSE IF latestFault \/ LatestBaseAvatarJobsWithKeypoints(userId) = {}
       THEN {NoContext}
       ELSE {JobRead(k) : k \in LatestBaseAvatarJobsWithKeypoints(userId)}

\* context.baseAvatarContext?.result_url and ?.keypoint_data as the task
\* reads them.
ContextResultUrl(context) ==
  IF context.id = NoJob THEN Null
  ELSE IF usingMemoryFallback THEN dtpJobs[context.id].result_url
  ELSE context.result_url

ContextKeypointData(context) ==
  IF context.id = NoJob THEN Null
  ELSE IF usingMemoryFallback THEN dtpJobs[context.id].keypoint_data
  ELSE context.keypoint_data

\* Variant of AfterContext: an overlay job without base-avatar context, or
\* with a context job that has no keypoints, is given up.
AfterContext_Fatal(context) ==
  IF ContextKeypointData(context) = Null THEN "catch" ELSE "build"

\* Where the task goes once the context is resolved: a missing context or
\* missing keypoints are logged and the task goes on to build the parts.
AfterContext(context) == "build"

\* GARMENT_OVERLAY: "baseAvatarContext = await resolveBaseAvatarContext(...)"
\* and "await resolveGarmentFittingMetadata(...)"; both catch their own store
\* errors.
TaskContext(jobId) ==
  /\ pc[jobId] = "context"
  /\ \E context \in UNION { resolveBaseAvatarContext(dtpJobs[jobId].user_id, explicitJobId,
                                                     byIdFault, latestFault) :
                              explicitJobId \in JobIds \cup {NoJob},
                              byIdFault \in StoreFaults, latestFault \in StoreFaults } :
       /\ ctx' = [ctx EXCEPT ![jobId] = context]
       /\ pc' = [pc EXCEPT ![jobId] = AfterContext(context)]
  /\ UNCHANGED << dtpJobs, pose >>
  /\ caught' = Thrown(jobId, pc'[jobId], "ContextError")
  /\ UNCHANGED TaskFrame

\* What a photoBase64 / garmentImageBase64 string of a request can be: a data
\* URL or base64 text, an http(s) URL, or a string that is neither.
ImageKinds == {"inline", "remote", "unusable"}

\* resolveInlineImage(primaryValue, fallbackUrl): TRUE when it returns inline
\* data. hasFallbackUrl: fallbackUrl is a remote URL; fetchOk: the remote
\* fetches of this call succeed.
resolveInlineImage(primaryKind, hasFallbackUrl, fetchOk) ==
  \/ primaryKind = "inline"
  \/ fetchOk /\ (primaryKind = "remote" \/ hasFallbackUrl)

\* buildPartsForJob(jobType, payload, context): TRUE when it returns parts.
\* garmentRef: resolveGarmentFittingMetadata gave a reference URL.
buildPartsForJob(jobType, photoKind, garmentKind, context, garmentRef, fetchOk) ==
  IF jobType = GARMENT_OVERLAY
  THEN /\ resolveInlineImage(photoKind, ContextResultUrl(context) # Null, fetchOk)
       /\ resolveInlineImage(garmentKind, garmentRef, fetchOk)
  ELSE resolveInlineImage(photoKind, FALSE, fetchOk)

\* "await buildPartsForJob(...)": the parts, or none when an image of the
\* request cannot be resolved (resolveInlineImage returned null). The context
\* is not read after this call, so its local is dropped here.
TaskBuild(jobId) ==
  /\ pc[jobId] = "build"
  /\ \E parts \in { buildPartsForJob(JobTypeOf(jobId), photoKind, garmentKind,
                                     ctx[jobId], garmentRef, fetchOk) :
                      photoKind \in ImageKinds, garmentKind \in ImageKinds,
                      garmentRef \in BOOLEAN, fetchOk \in BOOLEAN } :
       pc' = [pc EXCEPT ![jobId] = IF parts THEN "generate" ELSE "buildFailed"]
  /\ ctx' = [ctx EXCEPT ![jobId] = NoContext]
  /\ UNCHANGED << dtpJobs, pose >>
  /\ UNCHANGED caught
  /\ UNCHANGED TaskFrame

\* Variant of FailedUpdate: a failed job is put back in the queue.
FailedUpdate_Requeue(jobId) == updateDtpJobStatus(jobId, QUEUED_STATUS, Null, Undefined)

\* Variant of FailedUpdate: the catch block logs the error and records nothing.
FailedUpdate_Skipped(jobId) == dtpJobs

\* The record written when the task gives up.
FailedUpdate(jobId) == updateDtpJobStatus(jobId, FAILED_STATUS, Null, Undefined)

\* Variant of AfterBuildFailed: the "return" is missing and the task goes on
\* to the generation call.
AfterBuildFailed_NoReturn == "generate"

\* Where the task stands after it recorded the build failure: the "return"
\* that follows the update ends it.
AfterBuildFailed == "done"

\* "if (!parts || parts.length === 0) { await db.updateDtpJobStatus(jobId,
\* FAILED_STATUS, null); return; }"
TaskBuildFailed(jobId) ==
  /\ pc[jobId] = "buildFailed"
  /\ \E fault \in StoreFaults :
       IF fault
       THEN /\ pc' = [pc EXCEPT ![jobId] = "catch"]
            /\ UNCHANGED dtpJobs
       ELSE /\ dtpJobs' = FailedUpdate(jobId)
            /\ pc' = [pc EXCEPT ![jobId] = AfterBuildFailed]
  /\ UNCHANGED << pose, ctx >>
  /\ caught' = Thrown(jobId, pc'[jobId], "StoreError")
  /\ UNCHANGED TaskFrame

\* "await generateContent({parts, ...})": a data URL, or a thrown error
\* (provider error, network error, response without an inline image).
TaskGenerate(jobId) ==
  /\ pc[jobId] = "generate"
  /\ \E image \in BOOLEAN :
       pc' = [pc EXCEPT ![jobId] = IF image THEN "upload" ELSE "catch"]
  /\ UNCHANGED << dtpJobs, pose, ctx >>
  /\ caught' = Thrown(jobId, pc'[jobId], "GenerationError")
  /\ UNCHANGED TaskFrame

\* "await gcsService.uploadBase64Image(...)": the signed URL, or a thrown
\* error (no bucket configured, empty payload).
\* gcsService.uploadBase64Image builds the object path and the signed URL
\* without leaving the process; getBucketName throws when GCS_BUCKET_NAME is
\* not set. TRUE = it returns.
UploadOutcomes == { GCS_BUCKET_NAME \in server.env }

TaskUpload(jobId) ==
  /\ pc[jobId] = "upload"
  /\ \E uploaded \in UploadOutcomes :
       pc' = [pc EXCEPT ![jobId] = IF uploaded THEN "markReady" ELSE "catch"]
  /\ UNCHANGED << dtpJobs, pose, ctx >>
  /\ caught' = Thrown(jobId, pc'[jobId], "UploadError")
  /\ UNCHANGED TaskFrame

\* Variant of keypointUpdate: the pose result is never passed to the update.
keypointUpdate_Never(jobId) == Undefined

\* Variant of keypointUpdate: the pose result is passed whatever the job
\* type, and an overlay job passes the keypoints of its context.
keypointUpdate_AnyType(jobId) ==
  IF JobTypeOf(jobId) = BASE_AVATAR THEN pose[jobId] ELSE Keypoints

\* "const keypointUpdate = jobType === BASE_AVATAR ? poseKeypointData : undefined"
keypointUpdate(jobId) ==
  IF JobTypeOf(jobId) = BASE_AVATAR THEN pose[jobId] ELSE Undefined

\* Variant of ReadyUpdate: READY is recorded without the signed URL.
ReadyUpdate_NoUrl(jobId) ==
  updateDtpJobStatus(jobId, READY_STATUS, Null, keypointUpdate(jobId))

\* Variant of ReadyUpdate: the update that records READY is not made.
ReadyUpdate_Skipped(jobId) == dtpJobs

\* The record written once the image is uploaded.
ReadyUpdate(jobId) ==
  updateDtpJobStatus(jobId, READY_STATUS, SignedUrl, keypointUpdate(jobId))

\* "await db.updateDtpJobStatus(jobId, READY_STATUS, signedUrl, keypointUpdate)"
TaskMarkReady(jobId) ==
  /\ pc[jobId] = "markReady"
  /\ \E fault \in StoreFaults :
       IF fault
       THEN /\ pc' = [pc EXCEPT ![jobId] = "catch"]
            /\ UNCHANGED dtpJobs
       ELSE /\ dtpJobs' = ReadyUpdate(jobId)
            /\ pc' = [pc EXCEPT ![jobId] = "done"]
  /\ UNCHANGED << pose, ctx >>
  /\ caught' = Thrown(jobId, pc'[jobId], "StoreError")
  /\ UNCHANGED TaskFrame

\* Variant of AfterCatch: a task that recorded FAILED starts over.
AfterCatch_Retry(fault) == IF fault THEN "updateFailed" ELSE "load"

\* Variant of AfterCatch: an error of the FAILED update leaves the catch block.
AfterCatch_Rethrow(fault) == IF fault THEN "rejected" ELSE "done"

\* How the task ends after the catch block's update: "done", or
\* "updateFailed" when the update threw, which the inner catch logs
\* ('Failed to mark DTP job as FAILED.') and swallows. "rejected" would be a
\* task whose promise rejected.
AfterCatch(fault) == IF fault THEN "updateFailed" ELSE "done"

\* The catch block: "try { await db.updateDtpJobStatus(jobId, FAILED_STATUS,
\* null) } catch (updateError) { log }"; a failed update is swallowed. The
\* block ends here and with it the scope of "error".
TaskCatch(jobId) ==
  /\ pc[jobId] = "catch"
  /\ \E fault \in StoreFaults :
       /\ IF fault
          THEN UNCHANGED dtpJobs
          ELSE dtpJobs' = FailedUpdate(jobId)
       /\ pc' = [pc EXCEPT ![jobId] = AfterCatch(fault)]
  /\ UNCHANGED << pose, ctx >>
  /\ caught' = [caught EXCEPT ![jobId] = Null]
  /\ UNCHANGED TaskFrame

\* ------------------------------------------------------------------ clock

\* Time passes between two turns.
Tick(d) ==
  /\ ticks < MaxTicks
  /\ ticks' = ticks + 1
  /\ now' = now + d
  /\ UNCHANGED << usingMemoryFallback, nSubmits, userRateLimitMap, reqs,
                  dtpJobs, pc, pose, vertexAIService, caught, ctx, server, lastCall >>

\* ---------------------------------------------------------- specification

Init ==
  /\ usingMemoryFallback \in BOOLEAN
  /\ now = BootTime
  /\ ticks = 0
  /\ nSubmits = 0
  /\ userRateLimitMap = << >>
  /\ reqs = << >>
  /\ dtpJobs = << >>
  /\ pc = [j \in JobIds |-> "none"]
  /\ pose = [j \in JobIds |-> Undefined]
  /\ vertexAIService = VertexAtLoad(TRUE, VertexEnvNames)
  /\ caught = [j \in JobIds |-> Null]
  /\ ctx = [j \in JobIds |-> NoContext]
  /\ server \in { Listening(env) : env \in StartingEnvs }
  /\ lastCall = NoCall

TaskStep(jobId) ==
  \/ TaskLoad(jobId)
  \/ TaskMarkProcessing(jobId)
  \/ TaskPose(jobId)
  \/ TaskContext(jobId)
  \/ TaskBuild(jobId)
  \/ TaskBuildFailed(jobId)
  \/ TaskGenerate(jobId)
  \/ TaskUpload(jobId)
  \/ TaskMarkReady(jobId)
  \/ TaskCatch(jobId)

\* The pipeline: requests, their inserts, status reads and the background
\* tasks, in every interleaving. The wall clock stands still during the run
\* (processDtpJob reads it only to stamp updated_at).
NextPipeline ==
  \/ \E caller \in Callers, body \in Bodies :
       nSubmits < MaxSubmits /\ ProcessRequest(caller, body)
  \/ \E jobId \in JobIds : InsertDone(jobId)
  \/ UNCHANGED vars /\ \E caller \in Callers, jobId \in JobIds : StatusRequest(caller, jobId)
  \/ \E jobId \in JobIds : TaskStep(jobId)

SpecPipeline == Init /\ [][NextPipeline]_vars

\* The pipeline driven by one signed-in user: that user's submissions, their
\* inserts, the user's status reads and the background tasks.
NextSingleUser ==
  \/ \E body \in Bodies :
       nSubmits < MaxSubmits /\ ProcessRequest("u1", body)
  \/ \E jobId \in JobIds : InsertDone(jobId)
  \/ UNCHANGED vars /\ \E jobId \in JobIds : StatusRequest("u1", jobId)
  \/ \E jobId \in JobIds : TaskStep(jobId)

\* The start of a server whose environment holds every variable.
InitConfigured == Init /\ server = Listening(EnvNames)

\* The same on a fully configured server, with its scheduling: a task whose
\* awaited call has settled is resumed by the event loop, so a task that can
\* take a step eventually takes one; nothing makes the client submit or poll.
SpecSingleUserFair ==
  /\ InitConfigured
  /\ [][NextSingleUser]_vars
  /\ \A jobId \in JobIds : WF_vars(TaskStep(jobId))

\* The request path under a moving clock: requests and their inserts; the
\* background tasks (which neither read nor write userRateLimitMap) stay
\* suspended on their first store read.
NextLimiter ==
  \/ \E caller \in Callers, body \in Bodies :
       nSubmits < MaxSubmits /\ ProcessRequest(caller, body)
  \/ \E jobId \in JobIds : InsertDone(jobId)
  \/ \E d \in TickSteps : Tick(d)

SpecLimiter == Init /\ [][NextLimiter]_vars

\* The pose adapter on its own: a process in which the SDK is installed or
\* not, with the endpoint configured or not, receives calls of
\* getPoseKeypoints; the calls suspended on client.predict resume in any
\* order.
InitPose ==
  /\ usingMemoryFallback = FALSE
  /\ now = BootTime
  /\ ticks = 0
  /\ nSubmits = 0
  /\ userRateLimitMap = << >>
  /\ reqs = << >>
  /\ dtpJobs = << >>
  /\ pc = [j \in JobIds |-> "none"]
  /\ pose = [j \in JobIds |-> Undefined]
  /\ \E sdkInstalled \in BOOLEAN, env \in VertexEnvs :
       vertexAIService = VertexAtLoad(sdkInstalled, env)
  /\ caught = [j \in JobIds |-> Null]
  /\ ctx = [j \in JobIds |-> NoContext]
  /\ server = Listening(EnvNames)
  /\ lastCall = NoCall

NextPose ==
  \/ \E photo \in Photos, settlement \in Settlements :
       GetPoseKeypointsCall(photo, settlement)
  \/ \E c \in 1..MaxPoseCalls : GetPoseKeypointsResume(c)

SpecPose == InitPose /\ [][NextPose]_vars

\* The adapter with its scheduling: a call whose client.predict promise has
\* settled is resumed by the event loop.
SpecPoseFair ==
  SpecPose /\ \A c \in 1..MaxPoseCalls : WF_vars(GetPoseKeypointsResume(c))

\* ------------------------------------------------ a user who waits and retries

\* Amounts (ms) a user waits between two submissions.
RetrySteps == {14500, 16000, 29500}

\* The bodies enforceDtpRateLimit does not exempt.
LimitedBodies == { body \in Bodies : LimiterJobType(body) # GARMENT_OVERLAY }

\* One user sends submissions of the limited kind and waits in between; the
\* INSERTs of the requests let through are still in flight.
NextRetryAfter ==
  \/ \E body \in LimitedBodies :
       Len(reqs) < MaxRetryRequests /\ ProcessRequest("u1", body)
  \/ \E d \in RetrySteps : Tick(d)

SpecRetryAfter == Init /\ [][NextRetryAfter]_vars

\* ------------------------------------------------------- the server's start

\* A process whose modules are being loaded, with the given variables set.
Loading(env) == [env |-> env, phase |-> "loading"]

\* The server module runs to its end and bootstrap() settles: the process
\* listens, or it has exited with code 1.
Bootstrap ==
  /\ server.phase = "loading"
  /\ server' = [server EXCEPT !.phase =
                  IF Starts(server.env, usingMemoryFallback) THEN "listening" ELSE "exited"]
  /\ UNCHANGED << usingMemoryFallback, now, ticks, nSubmits, userRateLimitMap, reqs,
                  dtpJobs, pc, pose, vertexAIService, caught, ctx, lastCall >>

InitBoot ==
  /\ usingMemoryFallback \in BOOLEAN
  /\ now = BootTime
  /\ ticks = 0
  /\ nSubmits = 0
  /\ userRateLimitMap = << >>
  /\ reqs = << >>
  /\ dtpJobs = << >>
  /\ pc = [j \in JobIds |-> "none"]
  /\ pose = [j \in JobIds |-> Undefined]
  /\ vertexAIService = VertexAtLoad(TRUE, VertexEnvNames)
  /\ caught = [j \in JobIds |-> Null]
  /\ ctx = [j \in JobIds |-> NoContext]
  /\ server \in { Loading(env) : env \in SUBSET EnvNames }
  /\ lastCall = NoCall

\* A process started in any environment: once it listens (the routes are
\* reachable only then) it serves one signed-in user.
NextBoot ==
  \/ Bootstrap
  \/ server.phase = "listening" /\ NextSingleUser

SpecBoot == InitBoot /\ [][NextBoot]_vars

\* ------------------------------------- the generation adapter (geminiService)

MAX_BODY_SIZE_BYTES == 20 * 1024 * 1024

\* Content parts as generateContent receives them: the type field and the
\* number of bytes of the part's JSON text. A part of type "video" is one
\* mapPartFromPayload does not support.
PartTypes == {"text", "inlineData", "video"}
PartBytes == {64, MAX_BODY_SIZE_BYTES - 67, MAX_BODY_SIZE_BYTES - 66}
Parts == [type : PartTypes, bytes : PartBytes]

\* The "parts" arguments: not an array (isArray FALSE), or a list of up to
\* two parts.
PartsArguments ==
  { [isArray |-> FALSE, list |-> << >>] } \cup
  { [isArray |-> TRUE, list |-> l] :
      l \in { << >> } \cup { << a >> : a \in Parts } \cup { << a, b >> : a, b \in Parts } }

RECURSIVE SumBytes(_)
SumBytes(list) == IF list = << >> THEN 0 ELSE Head(list).bytes + SumBytes(Tail(list))

\* Buffer.byteLength(JSON.stringify(parts), 'utf8'): the brackets, the parts'
\* texts and the commas between them.
estimatedSize(list) ==
  2 + SumBytes(list) + (IF Len(list) > 0 THEN Len(list) - 1 ELSE 0)

\* Variant of RejectedBeforeFetch: the size of the request is not checked.
RejectedBeforeFetch_NoSizeCheck(parts, env) ==
  IF ~parts.isArray \/ Len(parts.list) = 0 THEN 400
  ELSE IF \E i \in 1..Len(parts.list) : parts.list[i].type = "video" THEN 400
  ELSE IF GEMINI_API_KEY \notin env THEN 500
  ELSE 0

\* The statusCode of the error generateContent throws before it calls fetch,
\* 0 when it gets to the call: the checks of parts, of the estimated size, of
\* each part (mapPartFromPayload) and of the API key (getApiKey), in the
\* order in which they run.
RejectedBeforeFetch(parts, env) ==
  IF ~parts.isArray \/ Len(parts.list) = 0 THEN 400
  ELSE IF estimatedSize(parts.list) > MAX_BODY_SIZE_BYTES THEN 413
  ELSE IF \E i \in 1..Len(parts.list) : parts.list[i].type = "video" THEN 400
  ELSE IF GEMINI_API_KEY \notin env THEN 500
  ELSE 0

\* What the external endpoint does with a request: fetch rejects, or the
\* response is an error status, or it is 200 with or without an inline image.
FetchOutcomes == {"rejects", "status 429", "status 500", "no image", "image"}

\* The statusCode of the error thrown once fetch has settled (0: the error
\* fetch rejected with, which carries none, or no error at all).
StatusAfterFetch(outcome) ==
  CASE outcome = "status 429" -> 429
    [] outcome = "status 500" -> 500
    [] outcome = "no image" -> 502
    [] OTHER -> 0

\* A caller awaits generateContent({parts, ...}) to its end.
GenerateContent(parts, outcome) ==
  /\ lastCall.n < MaxDirectCalls
  /\ LET rejected == RejectedBeforeFetch(parts, server.env) IN
       lastCall' =
         IF rejected # 0
         THEN Call("generateContent", parts, TRUE,
                   [statusCode |-> rejected, fetched |-> FALSE])
         ELSE Call("generateContent", parts, outcome # "image",
                   [statusCode |-> StatusAfterFetch(outcome), fetched |-> TRUE])
  /\ UNCHANGED << usingMemoryFallback, now, ticks, nSubmits, userRateLimitMap, reqs,
                  dtpJobs, pc, pose, vertexAIService, caught, ctx, server >>

\* A process that has loaded the adapter, with or without the API key.
InitGeneration ==
  /\ usingMemoryFallback = FALSE
  /\ now = BootTime
  /\ ticks = 0
  /\ nSubmits = 0
  /\ userRateLimitMap = << >>
  /\ reqs = << >>
  /\ dtpJobs = << >>
  /\ pc = [j \in JobIds |-> "none"]
  /\ pose = [j \in JobIds |-> Undefined]
  /\ vertexAIService = VertexAtLoad(TRUE, VertexEnvNames)
  /\ caught = [j \in JobIds |-> Null]
  /\ ctx = [j \in JobIds |-> NoContext]
  /\ server \in { Loading(env) : env \in { EnvNames, EnvNames \ {GEMINI_API_KEY} } }
  /\ lastCall = NoCall

NextGeneration ==
  \E parts \in PartsArguments, outcome \in FetchOutcomes : GenerateContent(parts, outcome)

SpecGeneration == InitGeneration /\ [][NextGeneration]_vars

\* ------------------------------------ the generation adapter and its response

\* The parts of a candidate of the endpoint's JSON body: null, a text part,
\* or a part with an inlineData (inline_data) object whose mimeType and data
\* are there ("" when missing or empty).
ResponseParts ==
  [kind : {"inlineData"}, mimeType : {"", "image/png"},
   data : {"", "iVBORw0KGgo=", "/9j/4AAQSkZJ"}]
  \cup { [kind |-> "inline_data", mimeType |-> "image/png", data |-> "iVBORw0KGgo="] }
  \cup { [kind |-> k, mimeType |-> "", data |-> ""] : k \in {"null", "text"} }

\* A candidate: with content.parts an array of up to two parts, or without.
Candidates ==
  { [hasParts |-> FALSE, parts |-> << >>] } \cup
  { [hasParts |-> TRUE, parts |-> l] :
      l \in { << >> } \cup { << a >> : a \in ResponseParts }
            \cup { << a, b >> : a, b \in ResponseParts } }

\* What "await response.json()" gives: it rejects (the body is no JSON), or
\* an object with up to two candidates.
ResponseBodies ==
  { [parses |-> FALSE, candidates |-> << >>] } \cup
  { [parses |-> TRUE, candidates |-> l] :
      l \in { << >> } \cup { << a >> : a \in Candidates }
            \cup { << a, b >> : a, b \in Candidates } }

\* What fetch does: it rejects, or it resolves with a response (an error
\* response with a body of at most one candidate).
FetchSettlements ==
  { [how |-> "rejects", status |-> 0, body |-> [parses |-> FALSE, candidates |-> << >>]] }
  \cup { [how |-> "responds", status |-> 200, body |-> b] : b \in ResponseBodies }
  \cup { [how |-> "responds", status |-> st, body |-> b] :
           st \in {429, 500},
           b \in { r \in ResponseBodies : Len(r.candidates) <= 1 } }

\* "response.ok"
ResponseOk(status) == status >= 200 /\ status <= 299

\* extractInlineImage returned null.
NoInlineImage == [mimeType |-> "", data |-> ""]

\* "inlineData && inlineData.mimeType && inlineData.data"
HasInlineImage(part) ==
  part.kind \in {"inlineData", "inline_data"} /\ part.mimeType # "" /\ part.data # ""

\* Variant of FirstInParts: the last usable part of the list.
RECURSIVE FirstInParts_Last(_)
FirstInParts_Last(parts) ==
  IF parts = << >> THEN NoInlineImage
  ELSE IF HasInlineImage(parts[Len(parts)])
       THEN [mimeType |-> parts[Len(parts)].mimeType, data |-> parts[Len(parts)].data]
       ELSE FirstInParts_Last(SubSeq(parts, 1, Len(parts) - 1))

\* "for (const part of parts)": the inlineData of the first part that has one
\* with mimeType and data.
RECURSIVE FirstInParts(_)
FirstInParts(parts) ==
  IF parts = << >> THEN NoInlineImage
  ELSE IF HasInlineImage(Head(parts))
       THEN [mimeType |-> Head(parts).mimeType, data |-> Head(parts).data]
       ELSE FirstInParts(Tail(parts))

\* "for (const candidate of candidates)"
RECURSIVE FirstInCandidates(_)
FirstInCandidates(candidates) ==
  IF candidates = << >> THEN NoInlineImage
  ELSE LET found == IF Head(candidates).hasParts
                    THEN FirstInParts(Head(candidates).parts)
                    ELSE NoInlineImage
       IN IF found # NoInlineImage THEN found
          ELSE FirstInCandidates(Tail(candidates))

\* extractInlineImage(responseBody), responseBody being {} when the body did
\* not parse.
extractInlineImage(responseBody) ==
  IF responseBody.parses THEN FirstInCandidates(responseBody.candidates)
  ELSE NoInlineImage

\* `data:${imageData.mimeType};base64,${imageData.data}`, as the pieces the
\* string is made of.
DataUrl(imageData) == << "data:", imageData.mimeType, ";base64,", imageData.data >>

NoValue == << >>

\* generateContent from its call of fetch on: the error rethrown when fetch
\* rejects, the error with the response's status, the 502 error, or the
\* data URL.
GenerateContentAfterFetch(settlement) ==
  IF settlement.how = "rejects"
  THEN [threw |-> TRUE, statusCode |-> 0, fetches |-> 1, value |-> NoValue]
  ELSE IF ~ResponseOk(settlement.status)
  THEN [threw |-> TRUE, statusCode |-> settlement.status, fetches |-> 1, value |-> NoValue]
  ELSE LET imageData == extractInlineImage(settlement.body) IN
       IF imageData = NoInlineImage
       THEN [threw |-> TRUE, statusCode |-> 502, fetches |-> 1, value |-> NoValue]
       ELSE [threw |-> FALSE, statusCode |-> 0, fetches |-> 1, value |-> DataUrl(imageData)]

\* A caller awaits generateContent({parts, ...}) to its end, the endpoint's
\* answer given in full.
GenerateContentResponse(parts, settlement) ==
  /\ lastCall = NoCall
  /\ LET rejected == RejectedBeforeFetch(parts, server.env)
         result ==
           IF rejected # 0
           THEN [threw |-> TRUE, statusCode |-> rejected, fetches |-> 0, value |-> NoValue]
           ELSE GenerateContentAfterFetch(settlement)
     IN lastCall' = Call("generateContent", [parts |-> parts, settlement |-> settlement],
                         result.threw, result)
  /\ UNCHANGED << usingMemoryFallback, now, ticks, nSubmits, userRateLimitMap, reqs,
                  dtpJobs, pc, pose, vertexAIService, caught, ctx, server >>

\* The parts arguments of the runs of SpecGenerationResponse: one that is
\* rejected before fetch and one that is sent.
SentParts ==
  { [isArray |-> TRUE, list |-> << >>],
    [isArray |-> TRUE, list |-> << [type |-> "text", bytes |-> 64] >>] }

\* One call of generateContent in a process that has the API key.
NextGenerationResponse ==
  \E parts \in SentParts, settlement \in FetchSettlements :
    GenerateContentResponse(parts, settlement)

\* The process of InitGeneration, with the API key in its environment.
InitGenerationResponse == InitGeneration /\ GEMINI_API_KEY \in server.env

SpecGenerationResponse == InitGenerationResponse /\ [][NextGenerationResponse]_vars

\* ------------------------------------------- the client's poller (dtpService)

\* "options.intervalMs ?? 2000", "options.timeoutMs ?? 60000"
DEFAULT_INTERVAL_MS == 2000
DEFAULT_TIMEOUT_MS == 60000

\* The options of pollDtpStatus: none (the defaults), or a slower poll.
PollOptions ==
  { [intervalMs |-> DEFAULT_INTERVAL_MS, timeoutMs |-> DEFAULT_TIMEOUT_MS],
    [intervalMs |-> 15 * DEFAULT_INTERVAL_MS, timeoutMs |-> DEFAULT_TIMEOUT_MS] }

\* Where a call of pollDtpStatus stands: suspended on fetchDtpStatus or on
\* delay, returned with a status, or rejected with the timeout error or with
\* the error fetchDtpStatus threw.
PollPhases == {"fetch", "delay", "returned", "timeout", "requestError"}

Poll(phase, status) == [phase |-> phase, status |-> status]

\* "while (Date.now() - startTime < timeoutMs)": the loop goes on to the
\* next fetchDtpStatus, or the call throws the timeout error.
LoopTest(startTime, options, at) ==
  IF at - startTime < options.timeoutMs THEN "fetch" ELSE "timeout"

\* The client calls pollDtpStatus(jobId, token, options) with the jobId of
\* the 200 response to its submission; the first test of the loop passes and
\* the first GET /status request is sent.
PollStart(jobId, options) ==
  /\ lastCall = NoCall
  /\ jobId \in 1..Len(reqs) /\ reqs[jobId].code = 200
  /\ lastCall' = Call("pollDtpStatus",
                      [jobId |-> jobId, caller |-> reqs[jobId].caller,
                       startTime |-> now, options |-> options],
                      FALSE, Poll(LoopTest(now, options, now), Null))
  /\ UNCHANGED << usingMemoryFallback, now, ticks, nSubmits, userRateLimitMap, reqs,
                  dtpJobs, pc, pose, vertexAIService, caught, ctx, server >>

\* Variant of AfterFetch: any status of a 200 response is returned.
AfterFetch_AnyStatus(res) ==
  IF res.code # 200 THEN Poll("requestError", Null)
  ELSE Poll("returned", res.status)

\* fetchDtpStatus settles: it throws on a response that is not ok; a READY or
\* FAILED status is returned; on any other status the call awaits delay.
AfterFetch(res) ==
  IF res.code # 200 THEN Poll("requestError", Null)
  ELSE IF res.status \in {READY_STATUS, FAILED_STATUS} THEN Poll("returned", res.status)
  ELSE Poll("delay", res.status)

\* GET /status/:jobId is answered and the poller resumes.
PollFetched ==
  /\ lastCall.op = "pollDtpStatus"
  /\ lastCall.result.phase = "fetch"
  /\ \E fault \in StoreFaults :
       LET after == AfterFetch(StatusResponse(lastCall.args.caller, lastCall.args.jobId, fault)) IN
         lastCall' = [lastCall EXCEPT !.result = after,
                                      !.threw = (after.phase = "requestError")]
  /\ UNCHANGED << usingMemoryFallback, now, ticks, nSubmits, userRateLimitMap, reqs,
                  dtpJobs, pc, pose, vertexAIService, caught, ctx, server >>

\* The timer of delay(intervalMs) fires, intervalMs later, and the loop's
\* test runs.
PollDelayed ==
  /\ lastCall.op = "pollDtpStatus"
  /\ lastCall.result.phase = "delay"
  /\ now' = now + lastCall.args.options.intervalMs
  /\ LET next == LoopTest(lastCall.args.startTime, lastCall.args.options, now') IN
       lastCall' = [lastCall EXCEPT !.result = Poll(next, lastCall.result.status),
                                    !.threw = (next = "timeout")]
  /\ UNCHANGED << usingMemoryFallback, ticks, nSubmits, userRateLimitMap, reqs,
                  dtpJobs, pc, pose, vertexAIService, caught, ctx, server >>

\* A client that submits one job and polls its status, next to the job's
\* background task.
NextPoller ==
  \/ \E body \in Bodies : reqs = << >> /\ ProcessRequest("u1", body)
  \/ \E jobId \in JobIds : InsertDone(jobId)
  \/ \E jobId \in JobIds : TaskStep(jobId)
  \/ \E jobId \in JobIds, options \in PollOptions : PollStart(jobId, options)
  \/ PollFetched
  \/ PollDelayed

SpecPoller == Init /\ [][NextPoller]_vars

\* --------------------------------------------------- db.js called directly

\* The ids and request payloads used in direct calls of the store.
StoreIds == {1, 2}
StorePayloads == { RequestPayload(body) : body \in Bodies }

\* The table with the row stored under the row's id.
TableWith(row) ==
  [k \in DOMAIN dtpJobs \cup {row.id} |-> IF k = row.id THEN row ELSE dtpJobs[k]]

RowCountOne == "rowCount 1"
\* pg's error for a violated unique constraint (code 23505): the table is
\* created with "id UUID PRIMARY KEY".
UniqueViolation == "23505"
\* Any other error of the pg pool (connection lost, timeout).
PoolError == "pool error"

\* runMemoryQuery, branch "insert into dtp_jobs": memoryStore.dtpJobs.set(id,
\* jobRecord) and "return { rows: [], rowCount: 1 }".
runMemoryInsert(row) ==
  [ table |-> TableWith(row), threw |-> FALSE, result |-> RowCountOne ]

\* The database on the same INSERT.
runPoolInsert(row, fault) ==
  IF fault THEN [ table |-> dtpJobs, threw |-> TRUE, result |-> PoolError ]
  ELSE IF row.id \in DOMAIN dtpJobs
  THEN [ table |-> dtpJobs, threw |-> TRUE, result |-> UniqueViolation ]
  ELSE [ table |-> TableWith(row), threw |-> FALSE, result |-> RowCountOne ]

\* db.query(text, params): "return usingMemoryFallback ? runMemoryQuery(...)
\* : pool.query(...)" on the INSERT INTO dtp_jobs of POST /process.
queryInsert(row, fault) ==
  IF usingMemoryFallback THEN runMemoryInsert(row) ELSE runPoolInsert(row, fault)

\* A caller awaits db.query(INSERT INTO dtp_jobs ...) with the given id.
StoreInsert(id, userId, requestPayload) ==
  /\ lastCall.n < MaxDirectCalls
  /\ \E fault \in StoreFaults :
       LET done == queryInsert(InsertedRow(id, userId, requestPayload, now), fault) IN
         /\ dtpJobs' = done.table
         /\ lastCall' = Call("insert", [id |-> id, userId |-> userId], done.threw, done.result)
  /\ UNCHANGED << usingMemoryFallback, now, ticks, nSubmits, userRateLimitMap, reqs,
                  pc, pose, vertexAIService, caught, ctx, server >>

\* The (status, resultUrl) pairs and the keypointData arguments (Undefined =
\* argument omitted) that updateDtpJobStatus is called with.
StatusUpdates ==
  { << PROCESSING_STATUS, Null >>, << READY_STATUS, SignedUrl >>, << FAILED_STATUS, Null >> }
KeypointArguments == {Undefined, Null, Keypoints}

\* A caller awaits db.updateDtpJobStatus(jobId, status, resultUrl[, keypointData]).
StoreUpdateStatus(jobId, status, resultUrl, keypointData) ==
  /\ lastCall.n < MaxDirectCalls
  /\ \E fault \in StoreFaults :
       /\ dtpJobs' = IF fault THEN dtpJobs
                     ELSE updateDtpJobStatus(jobId, status, resultUrl, keypointData)
       /\ lastCall' = Call("updateDtpJobStatus",
                           [id |-> jobId, status |-> status, resultUrl |-> resultUrl,
                            keypointData |-> keypointData],
                           fault, IF fault THEN PoolError ELSE Undefined)
  /\ UNCHANGED << usingMemoryFallback, now, ticks, nSubmits, userRateLimitMap, reqs,
                  pc, pose, vertexAIService, caught, ctx, server >>

\* A caller awaits db.getLatestBaseAvatarJobWithKeypoints(userId): the id of
\* the job returned, NoJob for null. Among jobs with the same updated_at the
\* order of the store decides.
StoreLatest(userId) ==
  /\ lastCall.n < MaxDirectCalls
  /\ \E fault \in StoreFaults :
       \E found \in IF fault \/ LatestBaseAvatarJobsWithKeypoints(userId) = {}
                    THEN {NoJob} ELSE LatestBaseAvatarJobsWithKeypoints(userId) :
         lastCall' = Call("getLatestBaseAvatarJobWithKeypoints", [userId |-> userId],
                          fault, found)
  /\ UNCHANGED << usingMemoryFallback, now, ticks, nSubmits, userRateLimitMap, reqs,
                  dtpJobs, pc, pose, vertexAIService, caught, ctx, server >>

\* The rows of jobs the pipeline has left behind: a job that waits, a job
\* that ended READY (with keypoints when it is a base avatar).
ReadyRow(id, userId, requestPayload, at) ==
  [ InsertedRow(id, userId, requestPayload, at) EXCEPT
      !.status = READY_STATUS, !.result_url = SignedUrl,
      !.keypoint_data = IF isBaseAvatarJob(requestPayload) THEN Keypoints ELSE Null ]

\* Times (ms) at which the rows present at the start were written.
RowTimes == {BootTime, BootTime + 15000}

\* The payloads of the requests that POST /process lets through to its INSERT.
InitPayloads == { RequestPayload(body) : body \in { b \in Bodies : ValidationCode(b) = 0 } }

StoredRows(id) ==
  UNION { { InsertedRow(id, u, p, t), ReadyRow(id, u, p, t) } :
          u \in Users, p \in InitPayloads, t \in RowTimes }

\* The tables a store holds when the direct calls begin: any of the ids
\* absent or holding one such row.
StoredTables ==
  UNION { [ids -> UNION { StoredRows(id) : id \in ids }] : ids \in SUBSET StoreIds }

InitStore ==
  /\ usingMemoryFallback \in BOOLEAN
  /\ now = BootTime + 30000
  /\ ticks = 0
  /\ nSubmits = 0
  /\ userRateLimitMap = << >>
  /\ reqs = << >>
  /\ dtpJobs \in { t \in StoredTables : \A id \in DOMAIN t : t[id].id = id }
  /\ pc = [j \in JobIds |-> "none"]
  /\ pose = [j \in JobIds |-> Undefined]
  /\ vertexAIService = VertexAtLoad(TRUE, VertexEnvNames)
  /\ caught = [j \in JobIds |-> Null]
  /\ ctx = [j \in JobIds |-> NoContext]
  /\ server = Listening(EnvNames)
  /\ lastCall = NoCall

\* The job store under direct calls, in both of its variants.
NextStore ==
  \/ \E id \in StoreIds, userId \in Users, requestPayload \in StorePayloads :
       StoreInsert(id, userId, requestPayload)
  \/ \E jobId \in StoreIds, update \in StatusUpdates, keypointData \in KeypointArguments :
       StoreUpdateStatus(jobId, update[1], update[2], keypointData)
  \/ \E userId \in Users : StoreLatest(userId)

SpecStore == InitStore /\ [][NextStore]_vars

\* ------------------------------- resolveBaseAvatarContext called directly

\* processDtpJob awaits resolveBaseAvatarContext(userId, payload, overlayJobId)
\* for an overlay job of userId whose metadata name the job explicitJobId
\* (NoJob: none); the result is the id of the job returned, NoJob for null.
ResolveBaseAvatarContextCall(userId, explicitJobId, byIdFault, latestFault) ==
  /\ lastCall.n < MaxDirectCalls
  /\ \E context \in resolveBaseAvatarContext(userId, explicitJobId, byIdFault, latestFault) :
       lastCall' = Call("resolveBaseAvatarContext",
                        [userId |-> userId, explicitJobId |-> explicitJobId,
                         byIdFault |-> byIdFault, latestFault |-> latestFault],
                        FALSE, context.id)
  /\ UNCHANGED << usingMemoryFallback, now, ticks, nSubmits, userRateLimitMap, reqs,
                  dtpJobs, pc, pose, vertexAIService, caught, ctx, server >>

\* Overlay tasks resolve their context against the tables the pipeline has
\* left behind.
NextContext ==
  \E userId \in Users, explicitJobId \in StoreIds \cup {NoJob},
     byIdFault \in StoreFaults, latestFault \in StoreFaults :
    ResolveBaseAvatarContextCall(userId, explicitJobId, byIdFault, latestFault)

SpecContext == InitStore /\ [][NextContext]_vars

\* --------------------------- resolveGarmentFittingMetadata called directly

\* The metadata bags of overlay requests, by the fields
\* resolveGarmentFittingMetadata reads, the bag being parsed JSON: a field is
\* absent, null, an object, an array or a string; garmentId "" is an absent
\* one.
MetadataBags ==
  [fittingMetadata : {"absent", "null", "object", "string"},
   poseMetadata : {"absent", "null", "object"},
   poseAnchors : {"absent", "array", "object"},
   garmentId : {"", "g1"}]

\* "typeof value === 'object'"
TypeofObject(kind) == kind \in {"null", "object", "array"}

\* What db.getCatalogItemById(garmentId) does: it throws, or returns null, a
\* record without fitting_metadata, or a record with it.
CatalogLookups == {"throws", "no record", "no metadata", "metadata"}

\* The metadata of the returned object by where it was taken from ("none":
\* the function's own "metadata: null") and what kind of value it is, and
\* whether the catalog was read.
Resolution(from, kind, consulted) == [from |-> from, kind |-> kind, consulted |-> consulted]

\* resolveGarmentFittingMetadata(metadata, userId); it throws nothing.
resolveGarmentFittingMetadata(metadata, lookup) ==
  IF TypeofObject(metadata.fittingMetadata)
  THEN Resolution("fittingMetadata", metadata.fittingMetadata, FALSE)
  ELSE IF TypeofObject(metadata.poseMetadata)
  THEN Resolution("poseMetadata", metadata.poseMetadata, FALSE)
  ELSE IF metadata.poseAnchors = "array"
  THEN Resolution("poseAnchors", "object", FALSE)
  ELSE IF metadata.garmentId = ""
  THEN Resolution("none", "null", FALSE)
  ELSE IF lookup = "metadata"
  THEN Resolution("catalog", "object", TRUE)
  ELSE Resolution("none", "null", TRUE)

\* processDtpJob awaits resolveGarmentFittingMetadata(payload.metadata, userId).
ResolveGarmentFittingMetadataCall(metadata, lookup) ==
  /\ lastCall.n < MaxDirectCalls
  /\ lastCall' = Call("resolveGarmentFittingMetadata",
                      [metadata |-> metadata, lookup |-> lookup],
                      FALSE, resolveGarmentFittingMetadata(metadata, lookup))
  /\ UNCHANGED << usingMemoryFallback, now, ticks, nSubmits, userRateLimitMap, reqs,
                  dtpJobs, pc, pose, vertexAIService, caught, ctx, server >>

NextGarment ==
  \E metadata \in MetadataBags, lookup \in CatalogLookups :
    ResolveGarmentFittingMetadataCall(metadata, lookup)

SpecGarment == InitConfigured /\ [][NextGarment]_vars

\* ------------------------------------------- processDtpJob called directly

\* dtpService.processDtpJob(jobId, userId) is called, for a job id the store
\* holds or not; the task issues db.getDtpJobById and is suspended on it.
ProcessDtpJobCall(jobId) ==
  /\ lastCall.n < MaxDirectCalls
  /\ pc[jobId] = "none"
  /\ pc' = [pc EXCEPT ![jobId] = TaskStarted]
  /\ lastCall' = Call("processDtpJob", [jobId |-> jobId], FALSE, Undefined)
  /\ UNCHANGED << usingMemoryFallback, now, ticks, nSubmits, userRateLimitMap, reqs,
                  dtpJobs, pose, vertexAIService, caught, ctx, server >>

\* The rows a job of user u1 has left in the store at BootTime.
OrchestratorRows(id) ==
  { row \in StoredRows(id) : row.user_id = "u1" /\ row.updated_at = BootTime }

\* A listening server whose store holds any of the ids of StoreIds.
InitOrchestrator ==
  /\ usingMemoryFallback \in BOOLEAN
  /\ now = BootTime + 30000
  /\ ticks = 0
  /\ nSubmits = 0
  /\ userRateLimitMap = << >>
  /\ reqs = << >>
  /\ dtpJobs \in UNION { { t \in [ids -> UNION { OrchestratorRows(id) : id \in ids }] :
                             \A id \in ids : t[id].id = id } : ids \in SUBSET StoreIds }
  /\ pc = [j \in JobIds |-> "none"]
  /\ pose = [j \in JobIds |-> Undefined]
  /\ vertexAIService = VertexAtLoad(TRUE, VertexEnvNames)
  /\ caught = [j \in JobIds |-> Null]
  /\ ctx = [j \in JobIds |-> NoContext]
  /\ server \in { Listening(env) : env \in StartingEnvs }
  /\ lastCall = NoCall

NextOrchestrator ==
  \/ \E jobId \in JobIds : ProcessDtpJobCall(jobId)
  \/ \E jobId \in JobIds : TaskStep(jobId)

SpecOrchestrator == InitOrchestrator /\ [][NextOrchestrator]_vars

\* ------------------------------------ the images of a job, fetch by fetch

\* What the fallbackUrl argument of resolveInlineImage can be: null, the
\* primary value itself, another http(s) URL, a string that is no URL.
FallbackKinds == {"none", "same url", "other url", "not a url"}

\* The remote sources of a call and what fetchImageAsInlineData does with
\* each (TRUE: it returns inline data).
FetchResults == [{"primary", "fallback"} -> BOOLEAN]

\* Variant of remoteSources: the fallback URL is left out.
remoteSources_PrimaryOnly(primaryKind, fallbackKind) ==
  IF primaryKind = "remote" THEN << "primary" >> ELSE << >>

\* "const remoteSources = []; ...push(primaryValue); ...push(fallbackUrl)"
remoteSources(primaryKind, fallbackKind) ==
  (IF primaryKind = "remote" THEN << "primary" >> ELSE << >>)
  \o (IF fallbackKind = "other url" THEN << "fallback" >> ELSE << >>)

\* "for (const source of remoteSources) { ...; if (fetched) return fetched; }":
\* the source whose fetch gave the image ("none": no source did) and the
\* sources fetched, in order.
RECURSIVE TryInOrder(_, _, _)
TryInOrder(sources, ok, fetched) ==
  IF sources = << >> THEN [from |-> "none", fetched |-> fetched]
  ELSE IF ok[Head(sources)]
       THEN [from |-> Head(sources), fetched |-> Append(fetched, Head(sources))]
       ELSE TryInOrder(Tail(sources), ok, Append(fetched, Head(sources)))

\* resolveInlineImage(primaryValue, fallbackUrl, logContext) with its
\* fetches: where the returned image comes from ("none": it returns null).
ResolveInlineImageTrace(primaryKind, fallbackKind, ok) ==
  IF primaryKind = "inline" THEN [from |-> "inline", fetched |-> << >>]
  ELSE TryInOrder(remoteSources(primaryKind, fallbackKind), ok, << >>)

\* The arguments of one call: the fallback can be the primary value only if
\* that is a URL, and what is not fetched has no fetch result.
ImageArguments(fallbackKinds) ==
  { a \in [primaryKind : ImageKinds, fallbackKind : fallbackKinds, ok : FetchResults] :
      /\ a.fallbackKind = "same url" => a.primaryKind = "remote"
      /\ a.ok["primary"] => a.primaryKind = "remote"
      /\ a.ok["fallback"] => a.fallbackKind = "other url" }

NoImageArgument ==
  [primaryKind |-> "unusable", fallbackKind |-> "none", ok |-> [s \in {"primary", "fallback"} |-> FALSE]]

\* buildPartsForJob(jobType, payload, context) with its fetches: the two
\* resolutions (the garment's only for an overlay job) and whether parts are
\* returned.
BuildPartsTrace(jobType, base, garment) ==
  LET baseInline == ResolveInlineImageTrace(base.primaryKind, base.fallbackKind, base.ok)
      garmentInline ==
        IF jobType = GARMENT_OVERLAY
        THEN ResolveInlineImageTrace(garment.primaryKind, garment.fallbackKind, garment.ok)
        ELSE [from |-> "not resolved", fetched |-> << >>]
  IN [base |-> baseInline, garment |-> garmentInline,
      parts |-> baseInline.from # "none" /\ garmentInline.from # "none"]

\* The fallback of the base image: the context job's result_url for an
\* overlay job that has one, null otherwise.
BaseFallbackKinds(jobId) ==
  IF JobTypeOf(jobId) = GARMENT_OVERLAY /\ ContextResultUrl(ctx[jobId]) # Null
  THEN {"other url"} ELSE {"none"}

\* "await buildPartsForJob(...)" as TaskBuild, the call and its fetches kept
\* as the last call.
TaskBuildTraced(jobId) ==
  /\ pc[jobId] = "build"
  /\ \E base \in ImageArguments(BaseFallbackKinds(jobId)),
        garment \in IF JobTypeOf(jobId) = GARMENT_OVERLAY
                    THEN ImageArguments(FallbackKinds) ELSE {NoImageArgument} :
       LET built == BuildPartsTrace(JobTypeOf(jobId), base, garment) IN
         /\ pc' = [pc EXCEPT ![jobId] = IF built.parts THEN "generate" ELSE "buildFailed"]
         /\ lastCall' = [op |-> "buildPartsForJob", n |-> lastCall.n,
                         args |-> [jobId |-> jobId, base |-> base, garment |-> garment],
                         threw |-> FALSE, result |-> built]
  /\ ctx' = [ctx EXCEPT ![jobId] = NoContext]
  /\ UNCHANGED << usingMemoryFallback, now, ticks, nSubmits, userRateLimitMap, reqs,
                  dtpJobs, pose, vertexAIService, caught, server >>

\* processDtpJob called directly, for the ids the store may hold, on a fully
\* configured server, every fetch of its images told apart.
InitImage == InitOrchestrator /\ server = Listening(EnvNames)

NextImage ==
  \/ \E jobId \in StoreIds : ProcessDtpJobCall(jobId)
  \/ \E jobId \in JobIds :
       \/ TaskLoad(jobId)
       \/ TaskMarkProcessing(jobId)
       \/ TaskPose(jobId)
       \/ TaskContext(jobId)
       \/ TaskBuildTraced(jobId)
       \/ TaskBuildFailed(jobId)
       \/ TaskGenerate(jobId)
       \/ TaskUpload(jobId)
       \/ TaskMarkReady(jobId)
       \/ TaskCatch(jobId)

SpecImage == InitImage /\ [][NextImage]_vars

\* ------------------------------- backend/catalogRoutes.js: fitting metadata

\* An entry of an anchor list as normalizeAnchor reads it. name, role and
\* notes: absent (or no string), an empty string or a text; x and y, those of
\* entry.coordinates when that is an object and else of the entry: absent, a
\* number or a string.
Absent == "absent"
AnchorObjects ==
  [name : {Absent, "empty", "text"}, role : {Absent, "empty", "text"},
   notes : {Absent, "text"},
   x : {Absent, "number", "string"}, y : {Absent, "number", "string"}]

\* "return null" of normalizeAnchor
NoAnchor == [name |-> Absent, role |-> Absent, x |-> Absent, y |-> Absent, notes |-> Absent]

\* "typeof v === 'string' ? v : ..." followed by "if (v)": the text, if any.
TextOf(kind) == IF kind = "text" THEN "text" ELSE Absent

\* "typeof coordinates.x === 'number' ? coordinates.x : undefined"
NumberOf(kind) == IF kind = "number" THEN "number" ELSE Absent

\* normalizeAnchor(entry) for an object: the stored anchor by its keys, or
\* NoAnchor.
normalizeAnchor(entry) ==
  LET anchorName == TextOf(entry.name)
      x == NumberOf(entry.x)
      y == NumberOf(entry.y)
  IN IF anchorName = Absent /\ (x = Absent \/ y = Absent) THEN NoAnchor
     ELSE [name |-> anchorName,
           role |-> TextOf(entry.role),
           x |-> IF x # Absent /\ y # Absent THEN x ELSE Absent,
           y |-> IF x # Absent /\ y # Absent THEN y ELSE Absent,
           notes |-> TextOf(entry.notes)]

\* The anchor lists of a request: one that is not given, and lists of up to
\* one entry, the entry an object or not.
AnchorLists ==
  { [given |-> FALSE, isObject |-> FALSE, entry |-> NoAnchor] }
  \cup { [given |-> TRUE, isObject |-> FALSE, entry |-> NoAnchor] }
  \cup { [given |-> TRUE, isObject |-> TRUE, entry |-> e] : e \in AnchorObjects }

\* "rawMetadata.map(entry => normalizeAnchor(entry)).filter(Boolean)"
NormalizedAnchors(list) ==
  IF list.given /\ list.isObject /\ normalizeAnchor(list.entry) # NoAnchor
  THEN << normalizeAnchor(list.entry) >>
  ELSE << >>

\* normalizeFittingMetadata(rawMetadata) for an array (asArray) or for an
\* object with the field anchors and no notes: the anchors stored; stored is
\* FALSE when it returns null.
normalizeFittingMetadata(asArray, list) ==
  IF asArray
  THEN [stored |-> list.given, anchors |-> NormalizedAnchors(list)]
  ELSE [stored |-> NormalizedAnchors(list) # << >>, anchors |-> NormalizedAnchors(list)]

\* A catalog item is saved with fitting metadata.
NormalizeFittingMetadataCall(asArray, list) ==
  /\ lastCall.n < MaxDirectCalls
  /\ lastCall' = Call("normalizeFittingMetadata", [asArray |-> asArray, list |-> list],
                      FALSE, normalizeFittingMetadata(asArray, list))
  /\ UNCHANGED << usingMemoryFallback, now, ticks, nSubmits, userRateLimitMap, reqs,
                  dtpJobs, pc, pose, vertexAIService, caught, ctx, server >>

NextCatalog ==
  \E asArray \in BOOLEAN, list \in AnchorLists : NormalizeFittingMetadataCall(asArray, list)

SpecCatalog == InitConfigured /\ [][NextCatalog]_vars

\* ---------------------------------------------------------------- claims

Statuses == {QUEUED_STATUS, PROCESSING_STATUS, READY_STATUS, FAILED_STATUS}
Terminal == {READY_STATUS, FAILED_STATUS}

\* Position of a status in the order QUEUED, PROCESSING, then READY or FAILED.
Rank(status) ==
  CASE status = QUEUED_STATUS -> 0
    [] status = PROCESSING_STATUS -> 1
    [] status \in Terminal -> 2

\* The answer the owner of job j gets from GET /status/j when the store
\* answers the query.
OwnerLookup(j) == StatusResponse(dtpJobs[j].user_id, j, FALSE)

\* C1: in every step of every interleaving of submissions, tasks and lookups,
\* a stored job stays stored and its status does not move to an earlier one
\* in the order QUEUED, PROCESSING, READY/FAILED; and an owner's lookup that
\* is answered with the job reports the stored status of that instant, so
\* two successive lookups never observe a regression.
C1_StatusMovesForward ==
  /\ [](\A j \in DOMAIN dtpJobs :
          OwnerLookup(j).code = 200 => OwnerLookup(j).status = dtpJobs[j].status)
  /\ [][\A j \in DOMAIN dtpJobs :
          /\ j \in DOMAIN dtpJobs'
          /\ Rank(dtpJobs'[j].status) >= Rank(dtpJobs[j].status)]_vars

\* A job went all the way to READY while another job of the run was taken up
\* and is PROCESSING.
C1_Witness ==
  \E j1, j2 \in DOMAIN dtpJobs :
    /\ dtpJobs[j1].status = READY_STATUS
    /\ dtpJobs[j2].status = PROCESSING_STATUS

\* C2: once a job is READY or FAILED, no step changes its status, its
\* result_url or its keypoint_data (so no job is READY at one time and FAILED
\* at another).
C2_TerminalAbsorbing ==
  [][\A j \in DOMAIN dtpJobs :
       dtpJobs[j].status \in Terminal =>
         /\ j \in DOMAIN dtpJobs'
         /\ dtpJobs'[j].status = dtpJobs[j].status
         /\ dtpJobs'[j].result_url = dtpJobs[j].result_url
         /\ dtpJobs'[j].keypoint_data = dtpJobs[j].keypoint_data]_vars

\* One task ended with its job READY and another with its job FAILED.
C2_Witness ==
  \E j1, j2 \in DOMAIN dtpJobs :
    /\ dtpJobs[j1].status = READY_STATUS /\ pc[j1] = "done"
    /\ dtpJobs[j2].status = FAILED_STATUS /\ pc[j2] = "done"

\* C3: in every reachable state, a job's result_url is non-null exactly when
\* its status is READY.
C3_ResultUrlIffReady ==
  \A j \in DOMAIN dtpJobs :
    (dtpJobs[j].result_url # Null) <=> (dtpJobs[j].status = READY_STATUS)

\* A READY job carrying the signed URL beside a job that is still QUEUED.
C3_Witness ==
  \E j1, j2 \in DOMAIN dtpJobs :
    /\ dtpJobs[j1].status = READY_STATUS /\ dtpJobs[j1].result_url = SignedUrl
    /\ dtpJobs[j2].status = QUEUED_STATUS /\ dtpJobs[j2].result_url = Null

\* C4: for every submission answered 200, a status lookup for its job id by
\* the same user, in any later state in which the store answers the query, is
\* answered 200 with that job and a status among the four, with the database
\* and with the in-memory store.
C4_AcceptedJobRetrievable ==
  \A k \in 1..Len(reqs) :
    reqs[k].code = 200 =>
      LET res == StatusResponse(reqs[k].caller, k, FALSE) IN
      /\ res.code = 200
      /\ res.jobId = k
      /\ res.status \in Statuses

\* C5: a lookup by a user for a job id owned by another user is answered 404
\* with none of the job's fields, the same response as for an id no job has.
C5_CrossUserLookupNotFound ==
  \A j \in DOMAIN dtpJobs : \A a \in Users :
    a # dtpJobs[j].user_id =>
      /\ StatusResponse(a, j, FALSE) = StatusRes(404, Null)
      /\ StatusResponse(a, j, FALSE) = StatusResponse(a, MaxSubmits + 1, FALSE)

\* The k-th request came with a verified identity and a body the limiter
\* does not exempt.
LimiterChecked(k) ==
  /\ protect(reqs[k].caller) # Undefined
  /\ LimiterJobType(reqs[k].body) # GARMENT_OVERLAY

\* The k-th request was let through by protect and enforceDtpRateLimit.
Passed(k) == protect(reqs[k].caller) # Undefined /\ reqs[k].code \notin {401, 429}

\* The k-th request is a valid BASE_AVATAR submission of an authenticated user.
ValidBaseAvatar(k) == LimiterChecked(k) /\ ValidationCode(reqs[k].body) = 0

\* The k-th request is a valid BASE_AVATAR submission that was accepted: it
\* reached the INSERT (whose outcome is the store's).
AcceptedBaseAvatar(k) == ValidBaseAvatar(k) /\ reqs[k].code \in {0, 200, 500}

\* C6: of two valid BASE_AVATAR submissions of one user less than 30 s apart
\* at most one is accepted, and a valid BASE_AVATAR submission is throttled
\* only when the same user had a submission accepted less than 30 s before
\* it: one made 30 s or more after the last accepted one is accepted, whatever
\* rejected attempts lie in between.
C6_ThrottledOnlyAfterAccepted ==
  /\ \A i, k \in 1..Len(reqs) :
       (i < k /\ reqs[i].caller = reqs[k].caller
          /\ AcceptedBaseAvatar(i) /\ AcceptedBaseAvatar(k))
         => reqs[k].at - reqs[i].at >= RATE_LIMIT_WINDOW_MS
  /\ \A k \in 1..Len(reqs) :
       (ValidBaseAvatar(k) /\ reqs[k].code = 429) =>
         \E i \in 1..(k - 1) :
           /\ reqs[i].caller = reqs[k].caller
           /\ AcceptedBaseAvatar(i)
           /\ reqs[k].at - reqs[i].at < RATE_LIMIT_WINDOW_MS

\* C7: among the non-exempt submissions of one user, whatever requests are
\* still being handled when the next arrives, two that passed the limiter are
\* at least 30 s apart and every throttled one has a passed one less than 30 s
\* before it: of a burst inside one window exactly one passes.
C7_OnePassPerWindow ==
  /\ \A i, k \in 1..Len(reqs) :
       (i < k /\ reqs[i].caller = reqs[k].caller
          /\ LimiterChecked(i) /\ LimiterChecked(k) /\ Passed(i) /\ Passed(k))
         => reqs[k].at - reqs[i].at >= RATE_LIMIT_WINDOW_MS
  /\ \A k \in 1..Len(reqs) :
       (LimiterChecked(k) /\ reqs[k].code = 429) =>
         \E i \in 1..(k - 1) :
           /\ reqs[i].caller = reqs[k].caller
           /\ LimiterChecked(i) /\ Passed(i)
           /\ reqs[k].at - reqs[i].at < RATE_LIMIT_WINDOW_MS

\* Two BASE_AVATAR submissions of one user at the same instant: the first is
\* still waiting for its INSERT when the second is answered 429.
C7_Witness ==
  \E i, k \in 1..Len(reqs) :
    /\ i < k /\ reqs[i].caller = reqs[k].caller /\ reqs[i].at = reqs[k].at
    /\ ValidBaseAvatar(i) /\ ValidBaseAvatar(k)
    /\ reqs[i].code = 0 /\ reqs[k].code = 429

\* The k-th request is a valid GARMENT_OVERLAY submission of an authenticated
\* user.
ValidOverlay(k) ==
  /\ protect(reqs[k].caller) # Undefined
  /\ LimiterJobType(reqs[k].body) = GARMENT_OVERLAY
  /\ ValidationCode(reqs[k].body) = 0

C9_AnsweredWhileQueued ==
  [][\A k \in 1..Len(reqs) :
       /\ (reqs[k].code = 0 /\ reqs'[k].code = 200) =>
            /\ k \notin DOMAIN dtpJobs /\ pc[k] = "none"
            /\ k \in DOMAIN dtpJobs'
            /\ dtpJobs'[k].status = QUEUED_STATUS
            /\ pc'[k] = TaskStarted
            /\ SubmitRes(k, reqs[k].at) =
                 [ jobId |-> dtpJobs'[k].id,
                   status |-> dtpJobs'[k].status,
                   createdAt |-> dtpJobs'[k].created_at ]
       /\ reqs[k].code = 200 => reqs'[k] = reqs[k]]_vars

\* A submission answered 200 whose job has since been processed to READY, and
\* one answered 200 whose job has since FAILED.
C9_Witness ==
  \E i, k \in 1..Len(reqs) :
    /\ reqs[i].code = 200 /\ i \in DOMAIN dtpJobs
    /\ dtpJobs[i].status = READY_STATUS
    /\ reqs[k].code = 200 /\ k \in DOMAIN dtpJobs
    /\ dtpJobs[k].status = FAILED_STATUS

\* C10: a request without identity is answered 401, one without the source
\* image 400 (or 429 when throttled first), an overlay request without the
\* garment image 400, and only identified non-exempt requests are answered
\* 429; a request answered anything but 200 has no row in the store and no
\* task; a task exists only for a stored job whose request was answered 200.
C10_NoJobWithout200 ==
  /\ \A k \in 1..Len(reqs) :
       /\ protect(reqs[k].caller) = Undefined => reqs[k].code = 401
       /\ reqs[k].code = 429 => LimiterChecked(k)
       /\ (protect(reqs[k].caller) # Undefined /\ ~reqs[k].body.photo)
            => reqs[k].code \in {400, 429}
       /\ (protect(reqs[k].caller) # Undefined /\ reqs[k].body.photo
             /\ RouteJobType(reqs[k].body) = GARMENT_OVERLAY
             /\ ~reqs[k].body.garment)
            => reqs[k].code = 400
       /\ reqs[k].code # 200 => (k \notin DOMAIN dtpJobs /\ pc[k] = "none")
  /\ \A j \in JobIds :
       (pc[j] # "none" \/ j \in DOMAIN dtpJobs) =>
         /\ j \in DOMAIN dtpJobs
         /\ j \in 1..Len(reqs)
         /\ reqs[j].code = 200

\* A request answered 401, 400 or 429 and no row or task for it, beside an
\* accepted request of the same run whose task has run to its end.
C10_Witness ==
  \E i, k \in 1..Len(reqs) :
    /\ reqs[k].code \in {400, 401, 429}
    /\ k \notin DOMAIN dtpJobs /\ pc[k] = "none"
    /\ reqs[i].code = 200 /\ pc[i] = "done"
    /\ DOMAIN dtpJobs = {i}

\* The positions at which a task has ended.
TaskEnded == {"done", "updateFailed"}

\* C11: the promise of a background task never rejects, whatever the store,
\* the pose call, the context lookup, the generation or the upload did: every
\* task stands at a position of processDtpJob or has returned, and the
\* submission whose task failed keeps the 200 it was answered, so that the
\* failure shows in the job's status only.
C11_TaskNeverRejects ==
  \A j \in JobIds :
    /\ pc[j] # "rejected"
    /\ pc[j] \in TaskEnded => (j \in DOMAIN dtpJobs /\ reqs[j].code = 200)

\* A task that failed and whose FAILED update failed as well has returned; a
\* second task failed and recorded FAILED; both submissions were answered 200.
C11_Witness ==
  \E j, k \in JobIds :
    /\ pc[j] = "updateFailed" /\ reqs[j].code = 200
    /\ dtpJobs[j].status = PROCESSING_STATUS
    /\ pc[k] = "done" /\ reqs[k].code = 200
    /\ dtpJobs[k].status = FAILED_STATUS

\* The errors of the generation call (provider or network error, response
\* without an inline image) and of the upload.
GenerationOrUpload == {"GenerationError", "UploadError"}

\* C12 as claimed: the handling of a generation or upload failure ends with
\* the job FAILED and its result URL null.
C12_FailureAlwaysRecorded ==
  [][\A j \in DOMAIN dtpJobs :
       (pc[j] = "catch" /\ caught[j] \in GenerationOrUpload /\ pc'[j] # "catch") =>
         /\ dtpJobs'[j].status = FAILED_STATUS
         /\ dtpJobs'[j].result_url = Null]_vars

\* C12: when the generation call or the upload of a job failed, the job is not
\* READY and has no result URL; the task then makes no further call (no
\* upload after a generation failure) and ends either with FAILED and a null
\* result URL recorded, or, when the store rejects that update, with the row
\* left as it was; once the task has ended the row never changes, so the job
\* never becomes READY.
C12_FailureNeverReady ==
  /\ [](\A j \in DOMAIN dtpJobs :
          (pc[j] = "catch" /\ caught[j] \in GenerationOrUpload) =>
            /\ dtpJobs[j].status = PROCESSING_STATUS
            /\ dtpJobs[j].result_url = Null)
  /\ [][\A j \in DOMAIN dtpJobs :
          /\ (pc[j] = "catch" /\ caught[j] \in GenerationOrUpload) =>
               /\ pc'[j] \in {"catch"} \cup TaskEnded
               /\ pc'[j] = "done" =>
                    /\ dtpJobs'[j].status = FAILED_STATUS
                    /\ dtpJobs'[j].result_url = Null
               /\ pc'[j] # "done" => dtpJobs'[j] = dtpJobs[j]
          /\ pc[j] \in TaskEnded =>
               /\ pc'[j] = pc[j]
               /\ dtpJobs'[j] = dtpJobs[j]]_vars

\* The catch block of one task holds a generation error, that of another an
\* upload error.
C12_Witness ==
  \E j, k \in DOMAIN dtpJobs :
    /\ pc[j] = "catch" /\ caught[j] = "GenerationError"
    /\ pc[k] = "catch" /\ caught[k] = "UploadError"

\* The order of the positions of processDtpJob: the pose call is the step
\* that leaves "pose", the generation call the step that leaves "generate",
\* the upload the step that leaves "upload".
PositionRank(position) ==
  CASE position = "none" -> 0
    [] position = "load" -> 1
    [] position = "markProcessing" -> 2
    [] position \in {"pose", "context"} -> 3
    [] position = "build" -> 4
    [] position \in {"buildFailed", "generate"} -> 5
    [] position = "upload" -> 6
    [] position = "markReady" -> 7
    [] position = "catch" -> 8
    [] OTHER -> 9

\* C13: no step is retried. A task only moves forward through the positions
\* of processDtpJob, so that it stands once at most at the pose call, at the
\* generation call and at the upload; a task that has ended never moves
\* again, no second task is started for a job, and the task of a FAILED job
\* has ended.
C13_NoStepRetried ==
  /\ [](\A j \in DOMAIN dtpJobs :
          dtpJobs[j].status = FAILED_STATUS => pc[j] = "done")
  /\ [][\A j \in JobIds :
          /\ pc'[j] # pc[j] => PositionRank(pc'[j]) > PositionRank(pc[j])
          /\ pc[j] \in TaskEnded => pc'[j] = pc[j]]_vars

\* The task of a base-avatar job went through the pose call, the generation
\* call and the upload and ended with READY; the task of another job ended
\* with FAILED.
C13_Witness ==
  \E j, k \in DOMAIN dtpJobs :
    /\ JobTypeOf(j) = BASE_AVATAR /\ pose[j] = Keypoints
    /\ pc[j] = "done" /\ dtpJobs[j].status = READY_STATUS
    /\ pc[k] = "done" /\ dtpJobs[k].status = FAILED_STATUS

\* The stored status of a job, "none" for an id without a row.
StatusOf(j) == IF j \in DOMAIN dtpJobs THEN dtpJobs[j].status ELSE "none"

\* C14: every job that enters PROCESSING eventually is READY or FAILED,
\* whether or not a client polls or submits again, provided the external
\* calls settle and the store does not reject the update that records
\* FAILED (a task whose FAILED update was rejected has ended with the job
\* left PROCESSING); no request stops a task: a task that has not ended can
\* always take its next step.
C14_ProcessingReachesTerminal ==
  /\ [](\A j \in JobIds :
          pc[j] \notin {"none"} \cup TaskEnded => ENABLED TaskStep(j))
  /\ \A j \in JobIds :
       (StatusOf(j) = PROCESSING_STATUS)
         ~> (StatusOf(j) \in Terminal \/ pc[j] = "updateFailed")

\* A job is PROCESSING, its task about to make the generation call, while
\* the task of another job has already ended.
C14_Witness ==
  \E j, k \in DOMAIN dtpJobs :
    /\ dtpJobs[j].status = PROCESSING_STATUS /\ pc[j] = "generate"
    /\ dtpJobs[k].status \in Terminal /\ pc[k] = "done"

\* The calls of getPoseKeypoints made so far.
PoseCalls == vertexAIService.calls

\* The call was given a photo with something in it besides white space.
PhotoGiven(call) == Trim(call.photo) # << >>

\* The cases in which the adapter has no keypoints of the service: the
\* configuration is incomplete (no client or a setting missing), client.predict
\* rejected, or its response has no usable keypoint list.
NoServiceKeypoints(call) ==
  \/ call.settlement.how \in {"not called", "rejects"}
  \/ extractKeypoints(call.settlement.response) = << >>

Simulated(call) == call.state = "returned" /\ NoServiceKeypoints(call)

PoseCallState(c) == IF c \in 1..Len(PoseCalls) THEN PoseCalls[c].state ELSE "none"

PoseCallWithPhoto(c) == c \in 1..Len(PoseCalls) /\ PhotoGiven(PoseCalls[c])

\* C15: every call of getPoseKeypoints with a photo eventually returns a
\* keypoint result, also when the configured service never responds.
C15_PoseCallReturns ==
  \A c \in 1..MaxPoseCalls :
    PoseCallWithPhoto(c) ~> (PoseCallState(c) = "returned")

\* C18: a READY base-avatar job carries keypoint data, and it is the result
\* its own task got from the pose adapter (a non-empty list, C16; 17 entries
\* when simulated); a base-avatar job whose task has no usable pose result
\* is not READY.
C18_ReadyBaseAvatarHasKeypoints ==
  \A j \in DOMAIN dtpJobs :
    JobTypeOf(j) = BASE_AVATAR =>
      /\ dtpJobs[j].status = READY_STATUS =>
           /\ dtpJobs[j].keypoint_data # Null
           /\ dtpJobs[j].keypoint_data = pose[j]
           /\ pose[j] = Keypoints
      /\ ~PoseResultUsable(pose[j]) =>
           /\ dtpJobs[j].status # READY_STATUS
           /\ dtpJobs[j].keypoint_data = Null

\* A base-avatar job is READY with the keypoints of its pose call, and the
\* task of another base-avatar job, whose pose call threw, ended with FAILED.
C18_Witness ==
  \E j, k \in DOMAIN dtpJobs :
    /\ JobTypeOf(j) = BASE_AVATAR /\ dtpJobs[j].status = READY_STATUS
    /\ dtpJobs[j].keypoint_data = Keypoints
    /\ JobTypeOf(k) = BASE_AVATAR /\ dtpJobs[k].status = FAILED_STATUS
    /\ pose[k] = Undefined /\ pc[k] = "done"

\* C19: a job with keypoint data is a base-avatar job whose pose call
\* returned a usable result; an overlay job has none in any state, and no
\* step of an overlay job's task changes the keypoint data of any job.
C19_KeypointsOnlyOnBaseAvatar ==
  /\ [](\A j \in DOMAIN dtpJobs :
          /\ dtpJobs[j].keypoint_data # Null =>
               (JobTypeOf(j) = BASE_AVATAR /\ PoseResultUsable(pose[j]))
          /\ JobTypeOf(j) = GARMENT_OVERLAY => dtpJobs[j].keypoint_data = Null)
  /\ [][\A j \in DOMAIN dtpJobs :
          (JobTypeOf(j) = GARMENT_OVERLAY /\ pc'[j] # pc[j]) =>
            \A k \in DOMAIN dtpJobs :
              dtpJobs'[k].keypoint_data = dtpJobs[k].keypoint_data]_vars

\* An overlay job is READY without keypoint data while a base-avatar job of
\* the same user is READY with keypoint data.
C19_Witness ==
  \E j, k \in DOMAIN dtpJobs :
    /\ JobTypeOf(j) = GARMENT_OVERLAY /\ dtpJobs[j].status = READY_STATUS
    /\ dtpJobs[j].keypoint_data = Null /\ pc[j] = "done"
    /\ JobTypeOf(k) = BASE_AVATAR /\ dtpJobs[k].keypoint_data = Keypoints
    /\ dtpJobs[k].user_id = dtpJobs[j].user_id

\* The task of overlay job j is about to build its parts and has no
\* alignment context: no context job, or one without keypoints.
BuildsWithoutAlignment(j) ==
  /\ JobTypeOf(j) = GARMENT_OVERLAY
  /\ pc[j] = "build"
  /\ ContextKeypointData(ctx[j]) = Null

\* The READY base-avatar jobs of the owner of job j.
ReadyBaseAvatars(j) ==
  { k \in DOMAIN dtpJobs :
      /\ dtpJobs[k].user_id = dtpJobs[j].user_id
      /\ JobTypeOf(k) = BASE_AVATAR
      /\ dtpJobs[k].status = READY_STATUS }

JustCalled(op) == lastCall'.n # lastCall.n /\ lastCall'.op = op

\* C21: an insert of a job under an id the store already holds fails (with
\* the unique-key conflict or, the store being unreachable, with the pool's
\* error) and leaves the table as it was, with the in-memory store as with
\* the database; the table holds one row per id, the row of that id.
C21_CreateConflicts ==
  [][ /\ \A id \in DOMAIN dtpJobs' : dtpJobs'[id].id = id
      /\ (JustCalled("insert") /\ lastCall'.args.id \in DOMAIN dtpJobs)
           => lastCall'.threw /\ dtpJobs' = dtpJobs ]_vars


\* The fields of a row that updateDtpJobStatus never writes.
KeptFields(row) ==
  << row.id, row.user_id, row.request_payload, row.created_at >>

\* C22: a call of updateDtpJobStatus that returns sets the job's status and
\* result_url to its arguments and stamps updated_at; keypoint_data keeps
\* its value when the argument is omitted and takes the argument's value,
\* null included, when it is given; the job's other fields, the other jobs
\* and the set of jobs stay as they were.
C22_UpdateStatusPartial ==
  [][ (JustCalled("updateDtpJobStatus") /\ ~lastCall'.threw) =>
        LET a == lastCall'.args IN
          /\ DOMAIN dtpJobs' = DOMAIN dtpJobs
          /\ \A k \in DOMAIN dtpJobs \ {a.id} : dtpJobs'[k] = dtpJobs[k]
          /\ a.id \in DOMAIN dtpJobs =>
               /\ dtpJobs'[a.id].status = a.status
               /\ dtpJobs'[a.id].result_url = a.resultUrl
               /\ dtpJobs'[a.id].updated_at = now
               /\ dtpJobs'[a.id].keypoint_data =
                    IF a.keypointData = Undefined
                    THEN dtpJobs[a.id].keypoint_data ELSE a.keypointData
               /\ KeptFields(dtpJobs'[a.id]) = KeptFields(dtpJobs[a.id]) ]_vars

\* A job that had keypoints was updated without the keypointData argument,
\* next to another job.
C22_Witness ==
  /\ lastCall.op = "updateDtpJobStatus"
  /\ ~lastCall.threw
  /\ lastCall.args.keypointData = Undefined
  /\ lastCall.args.id \in DOMAIN dtpJobs
  /\ dtpJobs[lastCall.args.id].keypoint_data = Keypoints
  /\ dtpJobs[lastCall.args.id].status = FAILED_STATUS
  /\ DOMAIN dtpJobs # {lastCall.args.id}


\* The jobs of an owner that the orchestrator processes as base avatars and
\* that carry keypoints.
OwnBaseAvatarsWithKeypoints(ownerId) ==
  { k \in DOMAIN dtpJobs :
      /\ dtpJobs[k].user_id = ownerId
      /\ normalizeJobType(dtpJobs[k].request_payload.jobType) = BASE_AVATAR
      /\ dtpJobs[k].keypoint_data # Null }

\* C23: getLatestBaseAvatarJobWithKeypoints(userId), when it returns, gives
\* null exactly when the user owns no base-avatar job with keypoints, and
\* otherwise one of the user's base-avatar jobs with keypoints whose
\* updated_at no other such job exceeds.
C23_LatestBaseAvatarWithKeypoints ==
  (lastCall.op = "getLatestBaseAvatarJobWithKeypoints" /\ ~lastCall.threw) =>
    LET own == OwnBaseAvatarsWithKeypoints(lastCall.args.userId) IN
      IF own = {} THEN lastCall.result = NoJob
      ELSE /\ lastCall.result \in own
           /\ \A k \in own : dtpJobs[k].updated_at <= dtpJobs[lastCall.result].updated_at

\* The lookup returned the later of two base avatars with keypoints of one
\* user.
C23_Witness ==
  /\ lastCall.op = "getLatestBaseAvatarJobWithKeypoints"
  /\ lastCall.result # NoJob
  /\ \E k \in OwnBaseAvatarsWithKeypoints(lastCall.args.userId) :
       dtpJobs[k].updated_at < dtpJobs[lastCall.result].updated_at

\* The lookup returned null to a user while an overlay job of that user and a
\* base avatar of another user carry keypoints.
C23_WitnessNone ==
  /\ lastCall.op = "getLatestBaseAvatarJobWithKeypoints"
  /\ ~lastCall.threw
  /\ lastCall.result = NoJob
  /\ \E k \in DOMAIN dtpJobs :
       /\ dtpJobs[k].keypoint_data # Null
       /\ dtpJobs[k].user_id = lastCall.args.userId
  /\ \E k \in DOMAIN dtpJobs :
       /\ dtpJobs[k].keypoint_data # Null
       /\ dtpJobs[k].user_id # lastCall.args.userId


\* The variables without which a job of this process cannot be processed:
\* the generation API key, the bucket name and, unless the store is the
\* in-memory one, the store's connection string.
RequiredEnv ==
  IF usingMemoryFallback THEN {GEMINI_API_KEY, GCS_BUCKET_NAME} ELSE EnvNames

\* C25: a process in whose environment a required variable is missing does
\* not get to listen and receives no submission, and no task of an accepted
\* job is in its catch block for an upload that threw on the missing bucket
\* name.
C25_MissingConfigurationFatal ==
  /\ (server.phase # "loading" /\ ~(RequiredEnv \subseteq server.env)) =>
       /\ server.phase = "exited"
       /\ reqs = << >>
  /\ \A j \in JobIds :
       (pc[j] = "catch" /\ caught[j] = "UploadError") => GCS_BUCKET_NAME \in server.env

\* An accepted job whose image was generated fails at the upload on a server
\* that listens without GCS_BUCKET_NAME.
C25_FailsAtUpload ==
  \E j \in DOMAIN dtpJobs :
    /\ reqs[j].code = 200
    /\ pc[j] = "catch" /\ caught[j] = "UploadError"
    /\ GCS_BUCKET_NAME \notin server.env

\* A process without the API key, and one without DATABASE_URL in front of
\* the database, has exited.
C25_Exited ==
  /\ server.phase = "exited"
  /\ GCS_BUCKET_NAME \in server.env


\* C24: generateContent called with an empty list of parts throws an error
\* of statusCode 400, and called with parts whose JSON text exceeds 20 MB an
\* error of statusCode 413; in both cases fetch was not called.
C24_BadRequestRejectedBeforeFetch ==
  lastCall.op = "generateContent" =>
    LET parts == lastCall.args IN
      /\ (parts.isArray /\ parts.list = << >>) =>
           /\ lastCall.threw
           /\ lastCall.result = [statusCode |-> 400, fetched |-> FALSE]
      /\ (parts.isArray /\ 2 + SumBytes(parts.list) + Len(parts.list) - 1 > 20 * 1024 * 1024) =>
           /\ lastCall.threw
           /\ lastCall.result = [statusCode |-> 413, fetched |-> FALSE]

\* A request of two parts, one byte over the limit, was rejected.
C24_Witness ==
  /\ lastCall.op = "generateContent"
  /\ lastCall.args.isArray
  /\ estimatedSize(lastCall.args.list) = MAX_BODY_SIZE_BYTES + 1
  /\ lastCall.result.statusCode = 413

\* An empty list was rejected.
C24_WitnessEmpty ==
  /\ lastCall.op = "generateContent"
  /\ lastCall.args.isArray /\ lastCall.args.list = << >>
  /\ lastCall.result.statusCode = 400

\* A request of exactly the limit reached the endpoint.
C24_WitnessAtLimit ==
  /\ lastCall.op = "generateContent"
  /\ estimatedSize(lastCall.args.list) = MAX_BODY_SIZE_BYTES
  /\ lastCall.result.fetched


\* A call of pollDtpStatus is the last direct call.
Polling == lastCall.op = "pollDtpStatus"

\* C26 as claimed: a call of pollDtpStatus that has ended has returned a
\* READY or FAILED status or has thrown the timeout error.
C26_TerminalStatusOrTimeout ==
  Polling =>
    \/ lastCall.result.phase \in {"fetch", "delay"}
    \/ lastCall.result.phase = "returned" /\ lastCall.result.status \in Terminal
    \/ lastCall.result.phase = "timeout"

\* C26: a call of pollDtpStatus returns READY or FAILED statuses only; it
\* throws the timeout error only once timeoutMs have passed since its start
\* with no READY or FAILED status seen, and otherwise ends with the error of
\* a status request that was not answered 200; no step of the poller changes
\* a job, a task or the server.
C26_PollerReturnsTerminalOnly ==
  /\ [](Polling =>
         /\ lastCall.result.phase \in PollPhases
         /\ lastCall.result.phase = "returned" =>
              ~lastCall.threw /\ lastCall.result.status \in Terminal
         /\ lastCall.result.phase = "timeout" =>
              /\ lastCall.threw
              /\ now - lastCall.args.startTime >= lastCall.args.options.timeoutMs
              /\ lastCall.result.status \in Statuses \ Terminal
         /\ lastCall.result.phase = "requestError" => lastCall.threw)
  /\ [][ lastCall' # lastCall =>
           UNCHANGED << dtpJobs, pc, pose, caught, ctx, reqs, server >> ]_vars

\* The poll with the default options gave up after 60 s, and the job reached
\* READY afterwards.
C26_Witness ==
  /\ Polling
  /\ lastCall.result.phase = "timeout"
  /\ lastCall.args.options.intervalMs = 2000
  /\ now - lastCall.args.startTime = 60000
  /\ dtpJobs[lastCall.args.jobId].status = READY_STATUS

\* A poll returned FAILED.
C26_WitnessReturned ==
  /\ Polling
  /\ lastCall.result = Poll("returned", FAILED_STATUS)

\* A poll ended with the error of a status request.
C26_WitnessRequestError ==
  /\ Polling
  /\ lastCall.result.phase = "requestError"


\* The changes of status of the documented lifecycle.
LifecycleSteps ==
  { << QUEUED_STATUS, PROCESSING_STATUS >>,
    << PROCESSING_STATUS, READY_STATUS >>,
    << PROCESSING_STATUS, FAILED_STATUS >> }

\* C27: a job enters the store QUEUED, and every change of the status of a
\* stored job is QUEUED to PROCESSING, PROCESSING to READY or PROCESSING to
\* FAILED, whatever store call failed during its processing.
C27_LifecycleSteps ==
  [][\A j \in DOMAIN dtpJobs' :
       IF j \in DOMAIN dtpJobs
       THEN dtpJobs'[j].status # dtpJobs[j].status =>
              << dtpJobs[j].status, dtpJobs'[j].status >> \in LifecycleSteps
       ELSE dtpJobs'[j].status = QUEUED_STATUS]_vars


\* The positions at which a task has a call in flight to the pose adapter,
\* to the store for the base-avatar context, to the catalog or a remote
\* image host (buildPartsForJob), to the generation adapter or to the
\* artifact store, or is between two of them.
CallPositions == {"pose", "context", "build", "buildFailed", "generate", "upload"}

\* C28: a task makes its calls to the pose adapter, for the context, to the
\* catalog and the image hosts, to the generation adapter and to the artifact
\* store only while its job is PROCESSING with a null result URL: the step
\* that leaves the awaited PROCESSING update is the first to make such a
\* call, and only when the update succeeded.
C28_ProcessingBeforeAnyCall ==
  /\ [](\A j \in JobIds :
          pc[j] \in CallPositions =>
            /\ j \in DOMAIN dtpJobs
            /\ dtpJobs[j].status = PROCESSING_STATUS
            /\ dtpJobs[j].result_url = Null)
  /\ [][\A j \in JobIds :
          (pc'[j] \in CallPositions /\ pc[j] \notin CallPositions) =>
            /\ pc[j] = "markProcessing"
            /\ dtpJobs[j].status = QUEUED_STATUS]_vars

\* A task waits for the artifact store while another, whose PROCESSING update
\* failed, is in its catch block with its job still QUEUED.
C28_Witness ==
  \E j, k \in DOMAIN dtpJobs :
    /\ pc[j] = "upload" /\ dtpJobs[j].status = PROCESSING_STATUS
    /\ pc[k] = "catch" /\ dtpJobs[k].status = QUEUED_STATUS


\* C29: a task started for a job id the store does not hold never creates or
\* changes a row, a pose result or a context, and never gets to the
\* PROCESSING update or to a call of an adapter: it ends at the load, or,
\* when the load itself failed, in the catch block, whose update finds no
\* row.
C29_MissingJobAborts ==
  [][\A j \in JobIds :
       (j \notin DOMAIN dtpJobs /\ pc'[j] # pc[j]) =>
         /\ dtpJobs' = dtpJobs
         /\ pose' = pose /\ ctx' = ctx /\ vertexAIService' = vertexAIService
         /\ pc'[j] \in {"load", "done", "catch", "updateFailed"}]_vars

\* The task of an absent job has ended after its load found nothing, next to
\* a stored job that is still QUEUED.
C29_Witness ==
  \E j \in JobIds :
    /\ j \notin DOMAIN dtpJobs
    /\ pc[j] = "done"
    /\ \E k \in DOMAIN dtpJobs : dtpJobs[k].status = QUEUED_STATUS


\* C30: when the catch block's FAILED update has failed, the task has ended
\* without rejecting; the failed update left the table as it was, the job's
\* row is PROCESSING with a null result URL, and neither the row nor the
\* task changes again.
C30_FailedUpdateLeavesProcessing ==
  /\ [](\A j \in DOMAIN dtpJobs :
          pc[j] = "updateFailed" =>
            /\ dtpJobs[j].status = PROCESSING_STATUS
            /\ dtpJobs[j].result_url = Null)
  /\ [][\A j \in DOMAIN dtpJobs :
          /\ (pc[j] = "catch" /\ pc'[j] = "updateFailed") => dtpJobs' = dtpJobs
          /\ pc[j] = "updateFailed" =>
               pc'[j] = "updateFailed" /\ dtpJobs'[j] = dtpJobs[j]]_vars


\* C31: the timestamp the limiter holds for a user is the arrival time of a
\* BASE_AVATAR submission of that user that was accepted as a QUEUED job
\* (answered 200, or with its INSERT still in flight); submissions answered
\* 400, 401, 429 or 500 leave no timestamp behind.
C31_LimiterRecordsAcceptedOnly ==
  \A u \in DOMAIN userRateLimitMap :
    \E k \in 1..Len(reqs) :
      /\ reqs[k].caller = u
      /\ reqs[k].at = userRateLimitMap[u]
      /\ LimiterChecked(k)
      /\ reqs[k].code \in {0, 200}


\* What is left (ms) of the user's window when the k-th request arrives,
\* counted from the request the limiter last let through.
WindowLeft(k) ==
  LET passes == { i \in 1..(k - 1) : reqs[i].caller = reqs[k].caller
                                      /\ LimiterChecked(i) /\ Passed(i) }
      last == CHOOSE i \in passes : \A m \in passes : m <= i
  IN IF passes = {} THEN 0
     ELSE RATE_LIMIT_WINDOW_MS - (reqs[k].at - reqs[last].at)

\* C32: the Retry-After of a throttled submission is a whole number of
\* seconds from 1 to 30 and not less than what is left of the window; and a
\* valid BASE_AVATAR submission of the same user made that many seconds
\* later or more, with no submission of the user accepted in between, is not
\* throttled.
C32_RetryAfterSuffices ==
  /\ \A i \in 1..Len(reqs) :
       reqs[i].code = 429 =>
         /\ reqs[i].retryAfter \in 1..30
         /\ reqs[i].retryAfter * 1000 >= WindowLeft(i)
  /\ \A i, k \in 1..Len(reqs) :
       ( /\ i < k /\ reqs[i].caller = reqs[k].caller
         /\ reqs[i].code = 429
         /\ ValidBaseAvatar(k)
         /\ reqs[k].at - reqs[i].at >= reqs[i].retryAfter * 1000
         /\ \A m \in (i + 1)..(k - 1) : ~AcceptedBaseAvatar(m) )
       => reqs[k].code # 429

\* A throttled submission was told to wait 16 s with 15.5 s left, and the
\* valid submission made 16 s later was let through.
C32_Retried ==
  \E i, k \in 1..Len(reqs) :
    /\ i < k
    /\ reqs[i].code = 429 /\ reqs[i].retryAfter = 16 /\ WindowLeft(i) = 15500
    /\ ValidBaseAvatar(k) /\ reqs[k].at - reqs[i].at = 16000
    /\ reqs[k].code = 0


\* C33: whatever calls of getPoseKeypoints a process has made and whatever
\* the reasons of their fallbacks, the simulation notice has been logged at
\* most once, and it has been logged as soon as one call has returned the
\* simulated list.
C33_SimulationNoticeOnce ==
  /\ vertexAIService.notices <= 1
  /\ (\E c \in 1..Len(PoseCalls) : Simulated(PoseCalls[c]))
       => vertexAIService.notices = 1

\* Without the SDK, two calls returned the simulated list: the first passed
\* logSimulationNotice twice (SDK unavailable, configuration incomplete), the
\* second once; one notice was logged.
C33_Witness ==
  /\ ~vertexAIService.sdkInstalled
  /\ Len(PoseCalls) = 2
  /\ Simulated(PoseCalls[1]) /\ Simulated(PoseCalls[2])
  /\ vertexAIService.notices = 1

\* With the SDK and the configuration, one prediction was rejected and one
\* answered without keypoints; one notice was logged.
C33_WitnessPredictionFailed ==
  /\ \E c, d \in 1..Len(PoseCalls) :
       /\ Simulated(PoseCalls[c]) /\ PoseCalls[c].settlement.how = "rejects"
       /\ Simulated(PoseCalls[d]) /\ PoseCalls[d].settlement.how = "resolves"
       /\ PoseCalls[c].photo # PoseCalls[d].photo
  /\ vertexAIService.notices = 1


\* The positions << candidate, part >> of a response body's parts, the parts
\* that are inline images, and the reading order.
PartPositions(body) ==
  { p \in (1..2) \X (1..2) :
      /\ p[1] <= Len(body.candidates)
      /\ body.candidates[p[1]].hasParts
      /\ p[2] <= Len(body.candidates[p[1]].parts) }

PartAt(body, p) == body.candidates[p[1]].parts[p[2]]

ImagePositions(body) == { p \in PartPositions(body) : HasInlineImage(PartAt(body, p)) }

ReadBefore(p, q) == p[1] < q[1] \/ (p[1] = q[1] /\ p[2] < q[2])

\* The last call is one of generateContent that got to its call of fetch,
\* and fetch resolved with a response.
Responded ==
  /\ lastCall.op = "generateContent"
  /\ lastCall.result.fetches > 0
  /\ lastCall.args.settlement.how = "responds"

\* C34: a call of generateContent calls the endpoint at most once, and when
\* the endpoint responded the response alone decides the result: a status
\* outside 200..299 makes it throw with that status; a success whose body
\* has no inline image makes it throw the 502 'did not return an image'
\* error; a success with an inline image makes it return the data URL of the
\* first one in candidate and part order.
C34_ResultFromOneResponse ==
  lastCall.op = "generateContent" =>
    /\ lastCall.result.fetches <= 1
    /\ Responded =>
         LET st == lastCall.args.settlement.status
             body == lastCall.args.settlement.body
             images == ImagePositions(body)
         IN IF st # 200
            THEN lastCall.threw /\ lastCall.result.statusCode = st
            ELSE IF images = {}
            THEN lastCall.threw /\ lastCall.result.statusCode = 502
            ELSE /\ ~lastCall.threw
                 /\ \E p \in images :
                      /\ \A q \in images : ~ReadBefore(q, p)
                      /\ lastCall.result.value =
                           << "data:", PartAt(body, p).mimeType,
                              ";base64,", PartAt(body, p).data >>

\* A 200 response had two different inline images, the first one behind a
\* part without payload, and the call returned the first one's data URL.
C34_Witness ==
  /\ Responded /\ ~lastCall.threw
  /\ LET body == lastCall.args.settlement.body IN
       /\ \E p, q \in ImagePositions(body) :
            /\ ReadBefore(p, q)
            /\ PartAt(body, p).data # PartAt(body, q).data
            /\ lastCall.result.value[4] = PartAt(body, p).data
       /\ \E p \in PartPositions(body) \ ImagePositions(body) :
            PartAt(body, p).kind = "inlineData"

\* A 429 response that carried an inline image made the call throw with 429.
C34_WitnessStatus ==
  /\ Responded /\ lastCall.threw /\ lastCall.result.statusCode = 429
  /\ ImagePositions(lastCall.args.settlement.body) # {}

\* A 200 response whose body did not parse made the call throw with 502.
C34_WitnessEmpty ==
  /\ Responded /\ lastCall.threw /\ lastCall.result.statusCode = 502
  /\ ~lastCall.args.settlement.body.parses


\* The step changes the status, result URL or keypoint data of job j's row.
OutcomeChanged(j) ==
  /\ j \in DOMAIN dtpJobs'
  /\ \/ dtpJobs'[j].status # dtpJobs[j].status
     \/ dtpJobs'[j].result_url # dtpJobs[j].result_url
     \/ dtpJobs'[j].keypoint_data # dtpJobs[j].keypoint_data

\* C35: a step that changes the status, result URL or keypoint data of an
\* existing job is a step of that job's own task (the one started at its
\* submission): it moves that task and no other, answers no request and
\* changes no other job's row.
C35_SingleWriter ==
  [][ \A j \in DOMAIN dtpJobs :
        OutcomeChanged(j) =>
          /\ pc[j] \notin {"none", "done"}
          /\ pc'[j] # pc[j]
          /\ \A i \in JobIds \ {j} : pc'[i] = pc[i]
          /\ \A i \in DOMAIN dtpJobs \ {j} : dtpJobs'[i] = dtpJobs[i]
          /\ reqs' = reqs ]_vars

\* An overlay job's task, past its PROCESSING update, holds a READY
\* base-avatar job as its context; that job's row is as its own task left it.
C35_Witness ==
  \E j, b \in DOMAIN dtpJobs :
    /\ j # b
    /\ JobTypeOf(j) = GARMENT_OVERLAY /\ dtpJobs[j].status = PROCESSING_STATUS
    /\ pc[j] = "build" /\ ctx[j].id = b
    /\ pc[b] = "done" /\ dtpJobs[b].status = READY_STATUS
    /\ dtpJobs[b].result_url = SignedUrl /\ dtpJobs[b].keypoint_data # Null

\* Both tasks ended: the overlay job is READY without keypoint data, the
\* base-avatar job READY with its own.
C35_WitnessBothReady ==
  \E j, b \in DOMAIN dtpJobs :
    /\ JobTypeOf(j) = GARMENT_OVERLAY /\ JobTypeOf(b) = BASE_AVATAR
    /\ pc[j] = "done" /\ pc[b] = "done"
    /\ dtpJobs[j].status = READY_STATUS /\ dtpJobs[j].keypoint_data = Null
    /\ dtpJobs[b].status = READY_STATUS /\ dtpJobs[b].keypoint_data # Null

\* The metadata of the overlay job of the last call name a job that exists,
\* belongs to the overlay job's owner and could be read.
ExplicitUsable ==
  /\ lastCall.args.explicitJobId # NoJob
  /\ ~lastCall.args.byIdFault
  /\ lastCall.args.explicitJobId \in DOMAIN dtpJobs
  /\ dtpJobs[lastCall.args.explicitJobId].user_id = lastCall.args.userId

\* C36: the job resolveBaseAvatarContext returns for an overlay job belongs
\* to that job's owner. It is the job named in the metadata when that job
\* exists, is the owner's and could be read; otherwise (none named, missing,
\* another user's, read error) it is one of the owner's base-avatar jobs with
\* keypoints that none exceeds in updated_at, or there is no context (the
\* owner has none, or the lookup failed).
C36_ContextIsOwnersJob ==
  lastCall.op = "resolveBaseAvatarContext" =>
    LET owner == lastCall.args.userId
        own == OwnBaseAvatarsWithKeypoints(owner)
        found == lastCall.result
    IN /\ found # NoJob => (found \in DOMAIN dtpJobs /\ dtpJobs[found].user_id = owner)
       /\ IF ExplicitUsable THEN found = lastCall.args.explicitJobId
          ELSE IF lastCall.args.latestFault \/ own = {} THEN found = NoJob
          ELSE /\ found \in own
               /\ \A k \in own : dtpJobs[k].updated_at <= dtpJobs[found].updated_at

\* The metadata named another user's job with keypoints; the call returned
\* the owner's own base-avatar job instead.
C36_Witness ==
  /\ lastCall.op = "resolveBaseAvatarContext"
  /\ lastCall.args.explicitJobId \in DOMAIN dtpJobs
  /\ ~lastCall.args.byIdFault
  /\ dtpJobs[lastCall.args.explicitJobId].user_id # lastCall.args.userId
  /\ dtpJobs[lastCall.args.explicitJobId].keypoint_data # Null
  /\ lastCall.result # NoJob
  /\ lastCall.result # lastCall.args.explicitJobId

\* The metadata named another user's job and the owner had no base-avatar
\* job with keypoints: no context.
C36_WitnessNone ==
  /\ lastCall.op = "resolveBaseAvatarContext"
  /\ lastCall.args.explicitJobId \in DOMAIN dtpJobs
  /\ ~lastCall.args.byIdFault /\ ~lastCall.args.latestFault
  /\ dtpJobs[lastCall.args.explicitJobId].user_id # lastCall.args.userId
  /\ lastCall.result = NoJob

\* The metadata named a job of the owner that is no base avatar and has no
\* keypoints: it is the context.
C36_WitnessExplicit ==
  /\ lastCall.op = "resolveBaseAvatarContext"
  /\ ExplicitUsable
  /\ lastCall.result = lastCall.args.explicitJobId
  /\ dtpJobs[lastCall.result].keypoint_data = Null


\* The request carries a value for the field: an object or an array, not
\* null, not a string.
Carried(kind) == kind \in {"object", "array"}

\* C37: the fitting metadata of an overlay job is the metadata object of the
\* request (fittingMetadata, else poseMetadata) when it carries one; else the
\* request's pose-anchor list when it carries one; else the stored fitting
\* metadata of the catalog item the request names; else none. The catalog is
\* read only when the request carries neither, and a lookup that fails or
\* finds nothing gives no metadata and throws nothing.
C37_FittingMetadataPriority ==
  lastCall.op = "resolveGarmentFittingMetadata" =>
    LET m == lastCall.args.metadata
        r == lastCall.result
        explicit == Carried(m.fittingMetadata) \/ Carried(m.poseMetadata)
    IN /\ ~lastCall.threw
       /\ r.consulted => (~explicit /\ m.poseAnchors # "array")
       /\ IF Carried(m.fittingMetadata) THEN r.from = "fittingMetadata" /\ r.kind = "object"
          ELSE IF Carried(m.poseMetadata) THEN r.from = "poseMetadata" /\ r.kind = "object"
          ELSE IF m.poseAnchors = "array" THEN r.from = "poseAnchors"
          ELSE IF m.garmentId # "" /\ lastCall.args.lookup = "metadata"
               THEN r.from = "catalog"
          ELSE r.from = "none"

\* The same for requests none of whose metadata fields is null.
C37_WithoutNulls ==
  (/\ lastCall.op = "resolveGarmentFittingMetadata"
   /\ lastCall.args.metadata.fittingMetadata # "null"
   /\ lastCall.args.metadata.poseMetadata # "null")
    => C37_FittingMetadataPriority

\* A request named a catalog item and carried nothing else; the lookup
\* threw, and the call returned no metadata.
C37_WitnessLookupFailed ==
  /\ lastCall.op = "resolveGarmentFittingMetadata"
  /\ lastCall.result.consulted /\ lastCall.args.lookup = "throws"
  /\ lastCall.result.from = "none" /\ ~lastCall.threw


\* The last call built the parts of a job.
Built == lastCall.op = "buildPartsForJob"

\* One resolution of the last build went as claimed: a usable inline value
\* is taken without a fetch; otherwise the URLs supplied (the primary value,
\* then a fallback URL other than it) are fetched in order up to the first
\* that succeeds, and the image is that one's, or none when all failed.
ResolvedInOrder(a, r) ==
  LET supplied == (IF a.primaryKind = "remote" THEN << "primary" >> ELSE << >>)
                  \o (IF a.fallbackKind = "other url" THEN << "fallback" >> ELSE << >>)
  IN IF a.primaryKind = "inline"
     THEN r.from = "inline" /\ r.fetched = << >>
     ELSE /\ Len(r.fetched) <= Len(supplied)
          /\ r.fetched = SubSeq(supplied, 1, Len(r.fetched))
          /\ \A i \in 1..(Len(r.fetched) - 1) : ~a.ok[r.fetched[i]]
          /\ IF \E i \in 1..Len(supplied) : a.ok[supplied[i]]
             THEN /\ r.fetched # << >>
                  /\ r.from = r.fetched[Len(r.fetched)]
                  /\ a.ok[r.from]
             ELSE r.from = "none" /\ r.fetched = supplied

\* The images of the last build were resolved as claimed, and there are
\* parts exactly when every image the job needs was resolved.
ImagesResolvedInOrder ==
  Built =>
    LET j == lastCall.args.jobId
        r == lastCall.result
    IN /\ ResolvedInOrder(lastCall.args.base, r.base)
       /\ JobTypeOf(j) = GARMENT_OVERLAY => ResolvedInOrder(lastCall.args.garment, r.garment)
       /\ r.parts = (r.base.from # "none" /\
                       (JobTypeOf(j) = GARMENT_OVERLAY => r.garment.from # "none"))

\* The last build was of job j and gave no parts.
BuildFailedFor(j) == Built /\ lastCall.args.jobId = j /\ ~lastCall.result.parts

\* C38 as claimed: the images are resolved inline first, else from the
\* supplied URLs in order; a job whose base or garment image could not be
\* resolved never gets to the generation call, and once its task has ended
\* it is FAILED.
C38_UnresolvedImageFails ==
  /\ ImagesResolvedInOrder
  /\ \A j \in DOMAIN dtpJobs :
       BuildFailedFor(j) =>
         /\ pc[j] \in {"buildFailed", "catch"} \cup TaskEnded
         /\ pc[j] \in TaskEnded => dtpJobs[j].status = FAILED_STATUS

\* C38: the images are resolved inline first, else from the supplied URLs in
\* order; a job whose base or garment image could not be resolved never gets
\* to the generation call; its task records FAILED and ends, or, when the
\* store rejects that update and the catch block's, ends with the job left
\* PROCESSING.
C38_UnresolvedImageNeverGenerates ==
  /\ ImagesResolvedInOrder
  /\ \A j \in DOMAIN dtpJobs :
       BuildFailedFor(j) =>
         /\ pc[j] \in {"buildFailed", "catch"} \cup TaskEnded
         /\ pc[j] = "done" => dtpJobs[j].status = FAILED_STATUS /\ dtpJobs[j].result_url = Null
         /\ pc[j] # "done" => dtpJobs[j].status = PROCESSING_STATUS

\* An overlay job's garment image was a URL whose fetch failed and the
\* fallback URL's fetch failed too, its base image inline: both sources were
\* fetched, the build gave no parts and the job ended FAILED.
C38_Witness ==
  \E j \in DOMAIN dtpJobs :
    /\ BuildFailedFor(j)
    /\ lastCall.result.base.from = "inline"
    /\ lastCall.result.garment.fetched = << "primary", "fallback" >>
    /\ lastCall.result.garment.from = "none"
    /\ pc[j] = "done" /\ dtpJobs[j].status = FAILED_STATUS

\* The primary URL's fetch failed, the fallback URL's succeeded, and the task
\* went on to the generation call.
C38_WitnessFallback ==
  /\ Built /\ lastCall.result.parts
  /\ lastCall.result.base.fetched = << "primary", "fallback" >>
  /\ lastCall.result.base.from = "fallback"
  /\ pc[lastCall.args.jobId] = "generate"

\* The store rejected both FAILED updates of a job without parts.
C38_WitnessLeftProcessing ==
  \E j \in DOMAIN dtpJobs :
    BuildFailedFor(j) /\ pc[j] = "updateFailed" /\ dtpJobs[j].status = PROCESSING_STATUS


\* The entry has a label (a name or a role with text in it); it has both
\* coordinates (two numbers).
HasLabel(entry) == entry.name = "text" \/ entry.role = "text"
HasBothCoordinates(entry) == entry.x = "number" /\ entry.y = "number"

\* The anchor has both coordinates or none.
WellFormed(anchor) == (anchor.x = Absent) = (anchor.y = Absent)

\* C39: of the anchors given to normalizeFittingMetadata, one with neither a
\* label (name or role) nor both coordinates is not stored, one with a label
\* or with both coordinates is stored, and a stored anchor has both x and y
\* or neither.
C39_AnchorsKeptOrDiscarded ==
  (lastCall.op = "normalizeFittingMetadata" /\ lastCall.args.list.isObject) =>
    LET entry == lastCall.args.list.entry
        anchors == lastCall.result.anchors
    IN /\ (~HasLabel(entry) /\ ~HasBothCoordinates(entry)) => anchors = << >>
       /\ (HasLabel(entry) \/ HasBothCoordinates(entry)) => Len(anchors) = 1
       /\ \A i \in 1..Len(anchors) : WellFormed(anchors[i])

\* The same, the label being the name alone.
C39_NameOrCoordinates ==
  (lastCall.op = "normalizeFittingMetadata" /\ lastCall.args.list.isObject) =>
    LET entry == lastCall.args.list.entry
        anchors == lastCall.result.anchors
    IN /\ (entry.name # "text" /\ ~HasBothCoordinates(entry)) => anchors = << >>
       /\ (entry.name = "text" \/ HasBothCoordinates(entry)) => Len(anchors) = 1
       /\ \A i \in 1..Len(anchors) : WellFormed(anchors[i])

\* An anchor with a name and one coordinate was stored without coordinates.
C39_WitnessOneCoordinate ==
  /\ lastCall.op = "normalizeFittingMetadata" /\ lastCall.args.list.isObject
  /\ lastCall.args.list.entry.x = "number" /\ lastCall.args.list.entry.y = Absent
  /\ Len(lastCall.result.anchors) = 1
  /\ lastCall.result.anchors[1].x = Absent


\* C40: no step removes a job's row or changes its id, owner, request
\* payload or creation time, whatever requests, status reads and task steps
\* are interleaved; a row that appears is the row of the request answered in
\* that step, under an id no row had before.
C40_RecordsKept ==
  [][ /\ \A j \in DOMAIN dtpJobs :
           /\ j \in DOMAIN dtpJobs'
           /\ dtpJobs'[j].id = dtpJobs[j].id
           /\ dtpJobs'[j].user_id = dtpJobs[j].user_id
           /\ dtpJobs'[j].request_payload = dtpJobs[j].request_payload
           /\ dtpJobs'[j].created_at = dtpJobs[j].created_at
      /\ \A j \in DOMAIN dtpJobs' \ DOMAIN dtpJobs :
           /\ dtpJobs'[j].id = j
           /\ reqs[j].code = 0 /\ reqs'[j].code = 200
           /\ dtpJobs'[j].user_id = reqs[j].caller
           /\ \A k \in DOMAIN dtpJobs : dtpJobs[k].id # j ]_vars

\* Two jobs of one user have both been processed to their end, the second
\* submitted while the first was stored; both rows are there with their own
\* ids, owners and payloads.
C40_Witness ==
  /\ DOMAIN dtpJobs = {1, 2}
  /\ pc[1] \in TaskEnded /\ pc[2] \in TaskEnded
  /\ dtpJobs[1].user_id = dtpJobs[2].user_id
  /\ dtpJobs[1].request_payload # dtpJobs[2].request_payload
  /\ dtpJobs[1].status = READY_STATUS /\ dtpJobs[2].status = FAILED_STATUS
  /\ \A j \in {1, 2} : dtpJobs[j].id = j /\ dtpJobs[j].user_id = reqs[j].caller

====
